---------------------------- MODULE Spec2Model ----------------------------
(***************************************************************************)
(* Compound-interest calculator (zinses-rechner): the period-by-period     *)
(* engine CalculatorService.calculate_compound_interest, the request       *)
(* models and validators in front of it, modelled as a state machine.      *)
(*                                                                         *)
(* Amounts are Python decimal.Decimal values.  A Decimal is modelled by    *)
(* its value: a sign, a coefficient and a decimal exponent,                *)
(*     [neg |-> BOOLEAN, c |-> coefficient, e |-> exponent],               *)
(* value = (-1)^neg * c * 10^e.  The coefficient is a little-endian        *)
(* sequence of base-10000 limbs without leading zero limbs (<<>> is 0),    *)
(* because a 28-digit coefficient does not fit a machine integer.  Every   *)
(* arithmetic result is rounded to the context precision (28 significant   *)
(* digits, ROUND_HALF_EVEN) as the decimal module does, and kept in the    *)
(* canonical form without trailing zero digits, so that two Decimals are   *)
(* equal as records exactly when they are equal as numbers.                *)
(***************************************************************************)
EXTENDS Integers, Sequences, FiniteSets, TLC

(***************************************************************************)
(* Decimal arithmetic (decimal.Decimal, default context)                   *)
(***************************************************************************)

\* Significant digits of the default decimal context.
DecimalPrec == 28

\* Base of one coefficient limb: four decimal digits.
LimbBase == 10000

Pow10(k) ==
    CASE k = 0 -> 1
      [] k = 1 -> 10
      [] k = 2 -> 100
      [] k = 3 -> 1000
      [] k = 4 -> 10000
      [] k = 5 -> 100000
      [] k = 6 -> 1000000
      [] k = 7 -> 10000000
      [] k = 8 -> 100000000
      [] k = 9 -> 1000000000

MaxOf(a, b) == IF a >= b THEN a ELSE b

MinOf(a, b) == IF a <= b THEN a ELSE b

Limb(c, i) == IF i >= 1 /\ i <= Len(c) THEN c[i] ELSE 0

RECURSIVE Strip(_)
\* Drop the leading (most significant) zero limbs.
Strip(c) ==
    IF Len(c) > 0 /\ c[Len(c)] = 0 THEN Strip(SubSeq(c, 1, Len(c) - 1)) ELSE c

LimbDigits(x) ==
    IF x >= 1000 THEN 4 ELSE IF x >= 100 THEN 3 ELSE IF x >= 10 THEN 2
    ELSE IF x >= 1 THEN 1 ELSE 0

\* Number of decimal digits of a stripped coefficient (0 for zero).
NumDigits(c) == IF Len(c) = 0 THEN 0 ELSE 4 * (Len(c) - 1) + LimbDigits(c[Len(c)])

\* The decimal digit at position p (0 is the least significant).
DigitAt(c, p) ==
    IF p < 0 THEN 0 ELSE (Limb(c, (p \div 4) + 1) \div Pow10(p % 4)) % 10

\* c * 10^k.
ShiftUp(c, k) ==
    IF Len(c) = 0 \/ k = 0 THEN c
    ELSE LET a == k \div 4
             b == k % 4
             hi == Pow10(4 - b)
             m == IF b = 0 THEN c
                  ELSE Strip([i \in 1..(Len(c) + 1) |->
                              (Limb(c, i) % hi) * Pow10(b) + (Limb(c, i - 1) \div hi)])
         IN  [i \in 1..a |-> 0] \o m

\* c \div 10^k.
ShiftDown(c, k) ==
    IF k = 0 THEN c
    ELSE LET a == k \div 4
             b == k % 4
             d == IF a >= Len(c) THEN <<>> ELSE SubSeq(c, a + 1, Len(c))
         IN  IF b = 0 THEN d
             ELSE Strip([i \in 1..Len(d) |->
                         (d[i] \div Pow10(b)) + (Limb(d, i + 1) % Pow10(b)) * Pow10(4 - b)])

\* Whether c % 10^k is not zero.
LowNonZero(c, k) == \E p \in 0..(k - 1) : DigitAt(c, p) # 0

RECURSIVE AddLimbs(_, _, _, _, _)
AddLimbs(a, b, i, carry, acc) ==
    IF i > MaxOf(Len(a), Len(b))
    THEN IF carry = 0 THEN acc ELSE Append(acc, carry)
    ELSE LET s == Limb(a, i) + Limb(b, i) + carry
         IN  AddLimbs(a, b, i + 1, s \div LimbBase, Append(acc, s % LimbBase))

AddMag(a, b) == AddLimbs(a, b, 1, 0, <<>>)

RECURSIVE SubLimbs(_, _, _, _, _)
SubLimbs(a, b, i, borrow, acc) ==
    IF i > Len(a) THEN Strip(acc)
    ELSE LET s == a[i] - Limb(b, i) - borrow
         IN  IF s < 0 THEN SubLimbs(a, b, i + 1, 1, Append(acc, s + LimbBase))
             ELSE SubLimbs(a, b, i + 1, 0, Append(acc, s))

\* a - b for coefficients with a >= b.
SubMag(a, b) == SubLimbs(a, b, 1, 0, <<>>)

RECURSIVE CmpFrom(_, _, _)
CmpFrom(a, b, i) ==
    IF i = 0 THEN 0
    ELSE IF a[i] > b[i] THEN 1
    ELSE IF a[i] < b[i] THEN -1
    ELSE CmpFrom(a, b, i - 1)

\* -1, 0, 1 as a < b, a = b, a > b (stripped coefficients).
CmpMag(a, b) ==
    IF Len(a) > Len(b) THEN 1
    ELSE IF Len(a) < Len(b) THEN -1
    ELSE CmpFrom(a, b, Len(a))

RECURSIVE ColumnSum(_, _, _, _, _)
\* Sum of a[i] * b[k + 1 - i] for i from lo to hi.
ColumnSum(a, b, k, i, hi) ==
    IF i > hi THEN 0 ELSE a[i] * b[k + 1 - i] + ColumnSum(a, b, k, i + 1, hi)

RECURSIVE MulCarry(_, _, _, _, _)
MulCarry(a, b, k, carry, acc) ==
    IF k > Len(a) + Len(b) - 1
    THEN IF carry = 0 THEN acc ELSE Append(acc, carry)
    ELSE LET s == ColumnSum(a, b, k, MaxOf(1, k + 1 - Len(b)), MinOf(k, Len(a))) + carry
             acc1 == Append(acc, s % LimbBase)
         IN  IF Len(acc1) >= 0 THEN MulCarry(a, b, k + 1, s \div LimbBase, acc1)
             ELSE <<>>

MulMag(a, b) ==
    IF Len(a) = 0 \/ Len(b) = 0 THEN <<>> ELSE MulCarry(a, b, 1, 0, <<>>)

\* c * m + d for a small multiplier m and a small addend d.
MulSmall(c, m, d) ==
    IF m = 0 THEN (IF d = 0 THEN <<>> ELSE <<d>>)
    ELSE AddMag(MulMag(c, <<m>>), IF d = 0 THEN <<>> ELSE <<d>>)

\* Coefficient of a natural number below 10^9.
Limbs(n) ==
    Strip(<<n % LimbBase, (n \div LimbBase) % LimbBase, n \div (LimbBase * LimbBase)>>)

\* The natural number of a coefficient of at most 9 digits.
LimbsToInt(c) == Limb(c, 1) + LimbBase * Limb(c, 2) + LimbBase * LimbBase * Limb(c, 3)

RECURSIVE TrailingZeros(_, _)
TrailingZeros(c, p) == IF DigitAt(c, p) = 0 THEN TrailingZeros(c, p + 1) ELSE p

\* The canonical Decimal of value (-1)^neg * c * 10^e.
Canon(neg, c, e) ==
    IF Len(c) = 0 THEN [neg |-> FALSE, c |-> <<>>, e |-> 0]
    ELSE LET t == TrailingZeros(c, 0)
         IN  [neg |-> neg, c |-> ShiftDown(c, t), e |-> e + t]

\* Context rounding: at most DecimalPrec significant digits, ROUND_HALF_EVEN.
RoundPrec(neg, c, e) ==
    LET n == NumDigits(c) IN
    IF n <= DecimalPrec THEN Canon(neg, c, e)
    ELSE LET k == n - DecimalPrec
             q == ShiftDown(c, k)
             first == DigitAt(c, k - 1)
             up == \/ first > 5
                   \/ first = 5 /\ (LowNonZero(c, k - 1) \/ q[1] % 2 = 1)
         IN  Canon(neg, IF up THEN AddMag(q, <<1>>) ELSE q, e + k)

DecZero == [neg |-> FALSE, c |-> <<>>, e |-> 0]

\* Decimal(str(x)) for a number x written as the decimal literal m * 10^e
\* (str of a float gives back the shortest literal that denotes it).
DecFromInput(x) == Canon(x.m < 0, Limbs(IF x.m < 0 THEN -x.m ELSE x.m), x.e)

\* Decimal('n') for a natural number n.
DecFromInt(n) == Canon(FALSE, Limbs(n), 0)

DecIsZero(a) == Len(a.c) = 0

DecNeg(a) == IF DecIsZero(a) THEN a ELSE [a EXCEPT !.neg = ~a.neg]

\* Compare magnitudes of two Decimals: -1, 0, 1.
DecCmpMag(a, b) ==
    IF DecIsZero(a) \/ DecIsZero(b)
    THEN (IF DecIsZero(a) /\ DecIsZero(b) THEN 0 ELSE IF DecIsZero(a) THEN -1 ELSE 1)
    ELSE LET ta == NumDigits(a.c) + a.e
             tb == NumDigits(b.c) + b.e
         IN  IF ta > tb THEN 1
             ELSE IF ta < tb THEN -1
             ELSE LET e == MinOf(a.e, b.e)
                  IN  CmpMag(ShiftUp(a.c, a.e - e), ShiftUp(b.c, b.e - e))

\* a > b, a >= b on Decimals.
DecCmp(a, b) ==
    IF a.neg /\ ~b.neg THEN -1
    ELSE IF ~a.neg /\ b.neg THEN 1
    ELSE IF a.neg THEN -DecCmpMag(a, b) ELSE DecCmpMag(a, b)

DecGt(a, b) == DecCmp(a, b) = 1

DecGe(a, b) == DecCmp(a, b) >= 0

\* a + b.
DecAdd(a, b) ==
    IF DecIsZero(a) THEN b
    ELSE IF DecIsZero(b) THEN a
    ELSE LET e == MinOf(a.e, b.e)
             ca == ShiftUp(a.c, a.e - e)
             cb == ShiftUp(b.c, b.e - e)
         IN  IF a.neg = b.neg THEN RoundPrec(a.neg, AddMag(ca, cb), e)
             ELSE IF CmpMag(ca, cb) >= 0 THEN RoundPrec(a.neg, SubMag(ca, cb), e)
             ELSE RoundPrec(b.neg, SubMag(cb, ca), e)

\* a - b.
DecSub(a, b) == DecAdd(a, DecNeg(b))

\* a * b.
DecMul(a, b) == RoundPrec(a.neg # b.neg, MulMag(a.c, b.c), a.e + b.e)

RECURSIVE FitQuotient(_, _, _)
\* The largest q <= guess with q * b <= r (the guess is never too small).
FitQuotient(r, b, guess) ==
    IF guess = 0 \/ CmpMag(MulSmall(b, guess, 0), r) <= 0 THEN guess
    ELSE FitQuotient(r, b, guess - 1)

RECURSIVE DivLimbs(_, _, _, _, _)
\* Long division of d by b, one limb of the dividend per step, from limb i
\* down to limb 1: <<quotient, remainder>>.  The divisor is normalised (its
\* leading limb is at least LimbBase \div 2), so that the guess made from
\* the leading limbs is at most 2 too large.
DivLimbs(d, b, i, q, rem) ==
    IF i < 1 THEN <<Strip(q), rem>>
    ELSE LET r0 == Strip(<<d[i]>> \o rem)
             n == Len(b)
             guess == MinOf(LimbBase - 1,
                            (Limb(r0, n + 1) * LimbBase + Limb(r0, n)) \div b[n])
             qd == IF CmpMag(r0, b) < 0 THEN 0 ELSE FitQuotient(r0, b, guess)
             r1 == IF qd = 0 THEN r0 ELSE SubMag(r0, MulSmall(b, qd, 0))
         IN  \* the length is taken so that each step's remainder is computed
             \* before the next step starts
             IF Len(r1) >= 0 THEN DivLimbs(d, b, i - 1, <<qd>> \o q, r1)
             ELSE <<q, rem>>

\* <<d \div b, d % b # 0>> for coefficients, b # 0.
DivMag(d, b) ==
    LET f == LimbBase \div (b[Len(b)] + 1)
        qr == DivLimbs(MulSmall(d, f, 0), MulSmall(b, f, 0), Len(MulSmall(d, f, 0)),
                       <<>>, <<>>)
    IN  <<qr[1], Len(qr[2]) # 0>>

\* a / b for b # 0: the quotient to DecimalPrec + 1 digits, the rest of the
\* division folded into the last digit, then the context rounding.
DecDiv(a, b) ==
    IF DecIsZero(a) THEN DecZero
    ELSE LET shift == NumDigits(b.c) - NumDigits(a.c) + DecimalPrec + 1
             qr == DivMag(ShiftUp(a.c, shift), b.c)
             q == qr[1]
             sticky == qr[2] /\ Limb(q, 1) % 5 = 0
         IN  RoundPrec(a.neg # b.neg, IF sticky THEN AddMag(q, <<1>>) ELSE q,
                       a.e - b.e - shift)

\* x.quantize(Decimal('0.01'), rounding=ROUND_HALF_UP), as a number of
\* hundredths (the float the code converts it to is that number / 100).
Quantize2(a) ==
    IF DecIsZero(a) THEN 0
    ELSE LET k == -2 - a.e
             m == IF k <= 0 THEN ShiftUp(a.c, -k)
                  ELSE IF DigitAt(a.c, k - 1) >= 5
                       THEN AddMag(ShiftDown(a.c, k), <<1>>)
                       ELSE ShiftDown(a.c, k)
         IN  IF a.neg THEN -LimbsToInt(m) ELSE LimbsToInt(m)

(***************************************************************************)
(* Inputs                                                                  *)
(***************************************************************************)

\* Largest investment period the model simulates.
MaxYears == 2

\* A number as the caller writes it: m * 10^e.
Num(m, e) == [m |-> m, e |-> e]

\* -1000, 0, 100.004, 12345.678, 10000001
Principals ==
    {Num(-1000, 0), Num(0, 0), Num(100004, -3), Num(12345678, -3), Num(10000001, 0)}

\* -1, 0, 50, 1.005, 50001
Payments == {Num(-1, 0), Num(0, 0), Num(50, 0), Num(1005, -3), Num(50001, 0)}

\* -1, 0, 0.01, 4, 20, 20.5 (percent)
Rates == {Num(-1, 0), Num(0, 0), Num(1, -2), Num(4, 0), Num(20, 0), Num(205, -1)}

YearsValues == (-1..MaxYears) \cup {51}

Frequencies == {"monthly", "quarterly", "yearly", "daily"}

\* Scenario 1 of the calculation examples (test_basic_compound_interest_calculation):
\* 10000 at 4 % for 10 years, yearly compounding, no payments.
Scenario1 ==
    [principal |-> Num(10000, 0), monthly_payment |-> Num(0, 0),
     annual_rate |-> Num(4, 0), years |-> 10, compound_frequency |-> "yearly"]

\* Scenario 3: 5000 and 200 a month at 5 % for 3 years, monthly compounding.
Scenario3 ==
    [principal |-> Num(5000, 0), monthly_payment |-> Num(200, 0),
     annual_rate |-> Num(5, 0), years |-> 3, compound_frequency |-> "monthly"]

Requests ==
    [principal : Principals, monthly_payment : Payments, annual_rate : Rates,
     years : YearsValues, compound_frequency : Frequencies]
      \cup {Scenario1, Scenario3}

(***************************************************************************)
(* Validation in front of the engine                                       *)
(***************************************************************************)

InRange(x, lo, lo_strict, hi) ==
    /\ IF lo_strict THEN DecGt(DecFromInput(x), DecFromInt(lo))
       ELSE DecGe(DecFromInput(x), DecFromInt(lo))
    /\ DecGe(DecFromInt(hi), DecFromInput(x))

AllowedFrequencies == {"monthly", "quarterly", "yearly"}

\* A faulty variant: the compound_frequency validator is missing.
RequestModelAcceptsAnyFrequency(r) ==
    /\ InRange(r.principal, 0, TRUE, 10000000)
    /\ InRange(r.monthly_payment, 0, FALSE, 50000)
    /\ InRange(r.annual_rate, 0, TRUE, 20)
    /\ r.years > 0 /\ r.years <= 50

\* CalculatorRequest(...): the field constraints and the frequency validator.
RequestModelAccepts(r) ==
    /\ InRange(r.principal, 0, TRUE, 10000000)
    /\ InRange(r.monthly_payment, 0, FALSE, 50000)
    /\ InRange(r.annual_rate, 0, TRUE, 20)
    /\ r.years > 0 /\ r.years <= 50
    /\ r.compound_frequency \in AllowedFrequencies

\* CalculatorService.validate_request: the set of errors it reports.
ValidateRequest(r) ==
    LET le0(x) == ~DecGt(DecFromInput(x), DecZero)
        gt(x, n) == DecGt(DecFromInput(x), DecFromInt(n))
    IN  {e \in {"principal_le_0", "principal_gt_max", "rate_le_0", "rate_gt_max",
                "years_le_0", "years_gt_max", "payment_lt_0", "payment_gt_max"} :
           \/ e = "principal_le_0" /\ le0(r.principal)
           \/ e = "principal_gt_max" /\ gt(r.principal, 10000000)
           \/ e = "rate_le_0" /\ le0(r.annual_rate)
           \/ e = "rate_gt_max" /\ gt(r.annual_rate, 20)
           \/ e = "years_le_0" /\ r.years <= 0
           \/ e = "years_gt_max" /\ r.years > 50
           \/ e = "payment_lt_0" /\ DecFromInput(r.monthly_payment).neg
           \/ e = "payment_gt_max" /\ gt(r.monthly_payment, 50000)}

\* CalculatorInputValidator(...): the field constraints and validators.
InputValidatorAccepts(r) ==
    /\ InRange(r.principal, 1, FALSE, 10000000)
    /\ InRange(r.monthly_payment, 0, FALSE, 50000)
    /\ InRange(r.annual_rate, 0, FALSE, 20)
    /\ r.years >= 1 /\ r.years <= 50
    /\ r.compound_frequency \in AllowedFrequencies

(***************************************************************************)
(* The engine: CalculatorService.calculate_compound_interest               *)
(***************************************************************************)

PeriodsPerYear(frequency) ==
    IF frequency = "monthly" THEN 12 ELSE IF frequency = "quarterly" THEN 4 ELSE 1

\* A faulty variant: the rate of a period with the wrong sign.
RatePerPeriodNegated(rate, frequency) ==
    IF frequency = "monthly" THEN DecNeg(DecDiv(rate, DecFromInt(12)))
    ELSE IF frequency = "quarterly" THEN DecNeg(DecDiv(rate, DecFromInt(4)))
    ELSE DecNeg(rate)

RatePerPeriod(rate, frequency) ==
    IF frequency = "monthly" THEN DecDiv(rate, DecFromInt(12))
    ELSE IF frequency = "quarterly" THEN DecDiv(rate, DecFromInt(4))
    ELSE rate

\* A faulty variant: the monthly payment is never added inside a period.
PeriodContributionNone(frequency, payment) == DecZero

\* A faulty variant: under quarterly and yearly compounding the payments of a
\* period are added at its start as well.
PeriodContributionSpread(frequency, payment) ==
    IF ~DecGt(payment, DecZero) THEN DecZero
    ELSE IF frequency = "monthly" THEN payment
    ELSE DecMul(payment, DecFromInt(12 \div PeriodsPerYear(frequency)))

\* The payment added at the start of one period.
PeriodContribution(frequency, payment) ==
    IF frequency = "monthly" /\ DecGt(payment, DecZero) THEN payment ELSE DecZero

\* A faulty variant: the interest of each period is rounded to cents before it
\* is added.
PeriodInterestRounded(amount, rate) ==
    LET cents == Quantize2(DecMul(amount, rate))
    IN  Canon(cents < 0, Limbs(IF cents < 0 THEN -cents ELSE cents), -2)

\* The interest of one period on the running amount.
PeriodInterest(amount, rate) == DecMul(amount, rate)

\* A faulty variant: the year-end payment counts one payment per compounding
\* period instead of twelve monthly payments.
AnnualContributionPerPeriod(frequency, payment) ==
    IF frequency \in {"quarterly", "yearly"} /\ DecGt(payment, DecZero)
    THEN DecMul(payment, DecFromInt(PeriodsPerYear(frequency)))
    ELSE DecZero

\* The payment added once at the end of a year.
AnnualContribution(frequency, payment) ==
    IF frequency \in {"quarterly", "yearly"} /\ DecGt(payment, DecZero)
    THEN DecMul(payment, DecFromInt(12))
    ELSE DecZero

GrowthRate(amount, start) ==
    IF DecGt(start, DecZero)
    THEN DecMul(DecDiv(DecSub(amount, start), start), DecFromInt(100))
    ELSE DecZero

\* A faulty variant: the operands of the subtraction are swapped.
TotalInterestSwapped(amount, contributions) == DecSub(contributions, amount)

\* total_interest = final_amount - total_contributions.
TotalInterest(amount, contributions) == DecSub(amount, contributions)

RECURSIVE PowMag(_, _)
\* c^n for a coefficient c and n >= 0, exactly.
PowMag(c, n) ==
    IF n = 0 THEN <<1>>
    ELSE LET p == PowMag(c, n - 1)
         IN  IF Len(p) >= 0 THEN MulMag(c, p) ELSE <<>>

\* The sign of ratio - (1 + k / 20000)^n, exactly, for k > -20000, ratio >= 0.
RootCmp(ratio, n, k) ==
    LET lhs == PowMag(Limbs(20000 + k), n)
        rhs == MulMag(ratio.c, PowMag(Limbs(20000), n))
    IN  IF ratio.e >= 0 THEN CmpMag(ShiftUp(rhs, ratio.e), lhs)
        ELSE CmpMag(rhs, ShiftUp(lhs, -ratio.e))

RECURSIVE RootUpper(_, _, _)
\* A number of hundredths h >= t with (1 + (2h - 1) / 20000)^n > ratio.
RootUpper(ratio, n, t) ==
    IF RootCmp(ratio, n, 2 * t - 1) >= 0 THEN RootUpper(ratio, n, 2 * t) ELSE t

RECURSIVE RootSearch(_, _, _, _)
\* The largest t in lo..(hi - 1) with (1 + (2t - 1) / 20000)^n <= ratio.
RootSearch(ratio, n, lo, hi) ==
    IF hi - lo <= 1 THEN lo
    ELSE LET mid == (lo + hi) \div 2
         IN  IF RootCmp(ratio, n, 2 * mid - 1) >= 0 THEN RootSearch(ratio, n, mid, hi)
             ELSE RootSearch(ratio, n, lo, mid)

RECURSIVE RootSearchDown(_, _, _, _)
\* The largest t in lo..(hi - 1) with ratio <= (1 - (2t - 1) / 20000)^n.
RootSearchDown(ratio, n, lo, hi) ==
    IF hi - lo <= 1 THEN lo
    ELSE LET mid == (lo + hi) \div 2
         IN  IF RootCmp(ratio, n, 1 - 2 * mid) <= 0
             THEN RootSearchDown(ratio, n, mid, hi)
             ELSE RootSearchDown(ratio, n, lo, mid)

\* A faulty variant: the return of the whole term, not annualized.
AnnualReturnOfTerm(amount, contributions, years) ==
    IF ~(DecGt(contributions, DecZero) /\ years > 0) THEN 0
    ELSE LET ratio == DecDiv(amount, contributions)
         IN  IF RootCmp(ratio, 1, 0) >= 0
             THEN RootSearch(ratio, 1, 0, RootUpper(ratio, 1, 1))
             ELSE -RootSearchDown(ratio, 1, 0, 10001)

\* ((final / contributions) ** (1 / years) - 1) * 100 quantized to 0.01 with
\* ROUND_HALF_UP, in hundredths; 0 unless contributions > 0 and years > 0.
\* The power is taken as the exact years-th root r of the 28-digit quotient
\* (never negative for an accepted request), so the result is the t with
\* t - 0.5 <= (r - 1) * 10000 < t + 0.5, ties away from zero.
AnnualReturn(amount, contributions, years) ==
    IF ~(DecGt(contributions, DecZero) /\ years > 0) THEN 0
    ELSE LET ratio == DecDiv(amount, contributions)
         IN  IF RootCmp(ratio, years, 0) >= 0
             THEN RootSearch(ratio, years, 0, RootUpper(ratio, years, 1))
             ELSE -RootSearchDown(ratio, years, 0, 10001)

\* A faulty variant: end_amount leaves the year's contributions out.
BreakdownEntryNoPayments(y, start, contributions, interest, amount, growth) ==
    [year |-> y,
     start_amount |-> Quantize2(start),
     contributions |-> Quantize2(contributions),
     interest |-> Quantize2(interest),
     end_amount |-> Quantize2(DecAdd(start, interest)),
     growth_rate |-> Quantize2(growth)]

\* One YearlyBreakdown entry; amounts in hundredths.
BreakdownEntry(y, start, contributions, interest, amount, growth) ==
    [year |-> y,
     start_amount |-> Quantize2(start),
     contributions |-> Quantize2(contributions),
     interest |-> Quantize2(interest),
     end_amount |-> Quantize2(amount),
     growth_rate |-> Quantize2(growth)]

NoResponse == [status |-> "none"]

\* No earlier call.
NoCall == [status |-> "none"]

VARIABLES
    request,              \* the caller's arguments
    validated_by,         \* the model class that validated them
    pc,                   \* where the call stands
    principal, monthly_payment, annual_rate,     \* Decimal locals
    periods_per_year, rate_per_period,
    current_amount, total_contributions, yearly_breakdown,
    year, period,                                \* loop counters
    year_start_amount, year_contributions, year_interest,
    interest_accrued,     \* history: the sum of the period interests so far
    response,             \* the CalculatorResponse of the finished call
    previous,             \* the call before it: its request and response
    now                   \* the clock read by datetime.now()

locals ==
    <<principal, monthly_payment, annual_rate, periods_per_year, rate_per_period,
      current_amount, total_contributions, yearly_breakdown, year, period,
      year_start_amount, year_contributions, year_interest, interest_accrued>>

\* The other components of the backend, each explored by a specification of
\* its own; they stand still while the engine is explored.
VARIABLES
    app,                  \* a call of the dictionary-returning service (src/app)
    limits,               \* a call of validate_api_limits
    caching,              \* cache_response_middleware, its cache and requests
    limiter,              \* RateLimitMiddleware, its counters and the clock
    alerting,             \* AlertManager: rules, active alerts, history
    monitor,              \* MonitoringService: is_running and its loop tasks
    collector,            \* MetricsCollector: the stored metrics
    memory,               \* a MemoryCache used through its own methods
    http                  \* a call of the HTTP calculation handler

\* A component that is not running.
Off == [pc |-> "off"]

\* The monitoring components, the MemoryCache and the HTTP handler.
ops_vars == <<alerting, monitor, collector, memory, http>>

OpsOff ==
    /\ alerting = Off /\ monitor = Off /\ collector = Off
    /\ memory = Off /\ http = Off

others == <<app, limits, caching, limiter, ops_vars>>

OthersOff ==
    /\ app = Off /\ limits = Off /\ caching = Off /\ limiter = Off
    /\ OpsOff

engine_vars == <<request, validated_by, pc, locals, response, previous, now>>

vars == <<engine_vars, others>>

Init ==
    /\ request \in Requests
    /\ validated_by = "none"
    /\ pc = "idle"
    /\ principal = DecZero /\ monthly_payment = DecZero /\ annual_rate = DecZero
    /\ periods_per_year = 0 /\ rate_per_period = DecZero
    /\ current_amount = DecZero /\ total_contributions = DecZero
    /\ yearly_breakdown = <<>>
    /\ year = 0 /\ period = 0
    /\ year_start_amount = DecZero /\ year_contributions = DecZero
    /\ year_interest = DecZero
    /\ interest_accrued = DecZero
    /\ response = NoResponse
    /\ previous = NoCall
    /\ now = 0
    /\ OthersOff

\* Whether the model class named by v accepts the request r.
Accepts(v, r) ==
    IF v = "CalculatorRequest" THEN RequestModelAccepts(r)
    ELSE InputValidatorAccepts(r)

\* The caller builds the CalculatorRequest; pydantic raises on a field
\* outside its constraints.
CreateRequest ==
    /\ pc = "idle"
    /\ validated_by' = "CalculatorRequest"
    /\ pc' = IF Accepts(validated_by', request) THEN "created" ELSE "rejected"
    /\ UNCHANGED <<request, locals, response, previous, now>>
    /\ UNCHANGED others

\* The export endpoints pass the request data through
\* validate_calculation_input, which builds a CalculatorInputValidator or
\* raises HTTP 422, and hand the validator object to the service.
ValidateCalculationInput ==
    /\ pc = "idle"
    /\ validated_by' = "CalculatorInputValidator"
    /\ pc' = IF Accepts(validated_by', request) THEN "created" ELSE "rejected"
    /\ UNCHANGED <<request, locals, response, previous, now>>
    /\ UNCHANGED others

\* A faulty variant: the breakdown list outlives the call that filled it.
StartCalculationKeepingBreakdown ==
    /\ pc = "created"
    /\ principal' = DecFromInput(request.principal)
    /\ monthly_payment' = DecFromInput(request.monthly_payment)
    /\ annual_rate' = DecDiv(DecFromInput(request.annual_rate), DecFromInt(100))
    /\ periods_per_year' = PeriodsPerYear(request.compound_frequency)
    /\ rate_per_period' = RatePerPeriod(annual_rate', request.compound_frequency)
    /\ current_amount' = principal'
    /\ total_contributions' = principal'
    /\ interest_accrued' = DecZero
    /\ year' = 1
    /\ pc' = "year"
    /\ UNCHANGED <<request, validated_by, yearly_breakdown, period,
                   year_start_amount, year_contributions, year_interest,
                   response, previous, now>>
    /\ UNCHANGED others

\* Conversion to Decimal, the frequency parameters, the loop's initial values.
StartCalculation ==
    /\ pc = "created"
    /\ principal' = DecFromInput(request.principal)
    /\ monthly_payment' = DecFromInput(request.monthly_payment)
    /\ annual_rate' = DecDiv(DecFromInput(request.annual_rate), DecFromInt(100))
    /\ periods_per_year' = PeriodsPerYear(request.compound_frequency)
    /\ rate_per_period' = RatePerPeriod(annual_rate', request.compound_frequency)
    /\ current_amount' = principal'
    /\ total_contributions' = principal'
    /\ interest_accrued' = DecZero
    /\ yearly_breakdown' = <<>>
    /\ year' = 1
    /\ pc' = "year"
    /\ UNCHANGED <<request, validated_by, period, year_start_amount,
                   year_contributions, year_interest, response, previous, now>>
    /\ UNCHANGED others

\* A faulty variant: every year starts from the principal.
BeginYearFromPrincipal ==
    /\ pc = "year"
    /\ year <= request.years
    /\ year_start_amount' = principal
    /\ year_contributions' = DecZero
    /\ year_interest' = DecZero
    /\ period' = 0
    /\ pc' = "period"
    /\ UNCHANGED <<request, validated_by, principal, monthly_payment,
                   annual_rate, periods_per_year, rate_per_period,
                   current_amount, total_contributions, yearly_breakdown, year,
                   interest_accrued, response, previous, now>>
    /\ UNCHANGED others

\* Head of the loop over the years.
BeginYear ==
    /\ pc = "year"
    /\ year <= request.years
    /\ year_start_amount' = current_amount
    /\ year_contributions' = DecZero
    /\ year_interest' = DecZero
    /\ period' = 0
    /\ pc' = "period"
    /\ UNCHANGED <<request, validated_by, principal, monthly_payment,
                   annual_rate, periods_per_year, rate_per_period,
                   current_amount, total_contributions, yearly_breakdown, year,
                   interest_accrued, response, previous, now>>
    /\ UNCHANGED others

\* A faulty variant: the payment of a period is missing from the year's
\* contributions.
PeriodStepUncounted ==
    /\ pc = "period"
    /\ period < periods_per_year
    /\ LET paid == PeriodContribution(request.compound_frequency, monthly_payment)
           funded == DecAdd(current_amount, paid)
           period_interest == PeriodInterest(funded, rate_per_period)
       IN  /\ current_amount' = DecAdd(funded, period_interest)
           /\ total_contributions' = DecAdd(total_contributions, paid)
           /\ year_interest' = DecAdd(year_interest, period_interest)
           /\ interest_accrued' = DecAdd(interest_accrued, period_interest)
    /\ period' = period + 1
    /\ UNCHANGED <<request, validated_by, pc, principal, monthly_payment,
                   annual_rate, periods_per_year, rate_per_period,
                   yearly_breakdown, year, year_start_amount,
                   year_contributions, response, previous, now>>
    /\ UNCHANGED others

\* A faulty variant: the interest of the period is computed before the
\* payment is added.
PeriodStepInterestFirst ==
    /\ pc = "period"
    /\ period < periods_per_year
    /\ LET paid == PeriodContribution(request.compound_frequency, monthly_payment)
           period_interest == PeriodInterest(current_amount, rate_per_period)
       IN  /\ current_amount' = DecAdd(DecAdd(current_amount, paid), period_interest)
           /\ year_contributions' = DecAdd(year_contributions, paid)
           /\ total_contributions' = DecAdd(total_contributions, paid)
           /\ year_interest' = DecAdd(year_interest, period_interest)
           /\ interest_accrued' = DecAdd(interest_accrued, period_interest)
    /\ period' = period + 1
    /\ UNCHANGED <<request, validated_by, pc, principal, monthly_payment,
                   annual_rate, periods_per_year, rate_per_period,
                   yearly_breakdown, year, year_start_amount, response,
                   previous, now>>
    /\ UNCHANGED others

\* A faulty variant: the payment of a period is missing from the total of
\* the contributions.
PeriodStepTotalStale ==
    /\ pc = "period"
    /\ period < periods_per_year
    /\ LET paid == PeriodContribution(request.compound_frequency, monthly_payment)
           funded == DecAdd(current_amount, paid)
           period_interest == PeriodInterest(funded, rate_per_period)
       IN  /\ current_amount' = DecAdd(funded, period_interest)
           /\ year_contributions' = DecAdd(year_contributions, paid)
           /\ year_interest' = DecAdd(year_interest, period_interest)
           /\ interest_accrued' = DecAdd(interest_accrued, period_interest)
    /\ period' = period + 1
    /\ UNCHANGED <<request, validated_by, pc, principal, monthly_payment,
                   annual_rate, periods_per_year, rate_per_period,
                   total_contributions, yearly_breakdown, year,
                   year_start_amount, response, previous, now>>
    /\ UNCHANGED others

\* One compounding period: the payment (monthly compounding), then interest.
PeriodStep ==
    /\ pc = "period"
    /\ period < periods_per_year
    /\ LET paid == PeriodContribution(request.compound_frequency, monthly_payment)
           funded == DecAdd(current_amount, paid)
           period_interest == PeriodInterest(funded, rate_per_period)
       IN  /\ current_amount' = DecAdd(funded, period_interest)
           /\ year_contributions' = DecAdd(year_contributions, paid)
           /\ total_contributions' = DecAdd(total_contributions, paid)
           /\ year_interest' = DecAdd(year_interest, period_interest)
           /\ interest_accrued' = DecAdd(interest_accrued, period_interest)
    /\ period' = period + 1
    /\ UNCHANGED <<request, validated_by, pc, principal, monthly_payment,
                   annual_rate, periods_per_year, rate_per_period,
                   yearly_breakdown, year, year_start_amount, response,
                   previous, now>>
    /\ UNCHANGED others

\* After the periods of a year: the annual payment (quarterly and yearly
\* compounding), the growth rate, the year's breakdown entry.
EndYear ==
    /\ pc = "period"
    /\ period = periods_per_year
    /\ LET paid == AnnualContribution(request.compound_frequency, monthly_payment)
           amount == DecAdd(current_amount, paid)
           contributions == DecAdd(year_contributions, paid)
       IN  /\ current_amount' = amount
           /\ year_contributions' = contributions
           /\ total_contributions' = DecAdd(total_contributions, paid)
           /\ yearly_breakdown' =
                  Append(yearly_breakdown,
                         BreakdownEntry(year, year_start_amount, contributions,
                                        year_interest, amount,
                                        GrowthRate(amount, year_start_amount)))
    /\ year' = year + 1
    /\ pc' = "year"
    /\ UNCHANGED <<request, validated_by, principal, monthly_payment,
                   annual_rate, periods_per_year, rate_per_period, period,
                   year_start_amount, year_interest, interest_accrued,
                   response, previous, now>>
    /\ UNCHANGED others

\* After the last year: the totals, rounded, and the time of the calculation.
Finish ==
    /\ pc = "year"
    /\ year > request.years
    /\ response' = [status |-> "ok",
                    final_amount |-> Quantize2(current_amount),
                    total_contributions |-> Quantize2(total_contributions),
                    total_interest |->
                        Quantize2(TotalInterest(current_amount, total_contributions)),
                    annual_return |->
                        AnnualReturn(current_amount, total_contributions,
                                     request.years),
                    yearly_breakdown |-> yearly_breakdown,
                    calculation_time |-> now]
    /\ pc' = "done"
    /\ UNCHANGED <<request, validated_by, locals, previous, now>>
    /\ UNCHANGED others

\* Time passes between two calls.
Tick ==
    /\ pc = "done"
    /\ previous = NoCall
    /\ now = response.calculation_time
    /\ now' = now + 1
    /\ UNCHANGED <<request, validated_by, pc, locals, response, previous>>
    /\ UNCHANGED others

\* The caller keeps the result and calls again: with the same arguments, or
\* with the same amounts, rate and years under another compounding frequency.
CallAgain ==
    /\ pc = "done"
    /\ previous = NoCall
    /\ \E frequency \in AllowedFrequencies :
           request' = [request EXCEPT !.compound_frequency = frequency]
    /\ previous' = [status |-> "ok", request |-> request, response |-> response]
    /\ response' = NoResponse
    /\ pc' = IF Accepts(validated_by, request') THEN "created" ELSE "rejected"
    /\ UNCHANGED <<validated_by, locals, now>>
    /\ UNCHANGED others

Next ==
    \/ CreateRequest
    \/ ValidateCalculationInput
    \/ StartCalculation
    \/ BeginYear
    \/ PeriodStep
    \/ EndYear
    \/ Finish
    \/ Tick
    \/ CallAgain

Spec == Init /\ [][Next]_vars

(***************************************************************************)
(* Properties of the calculation                                           *)
(***************************************************************************)

Abs(n) == IF n < 0 THEN -n ELSE n

\* A returned amount (hundredths) as a Decimal.
DecFromCents(n) == Canon(n < 0, Limbs(Abs(n)), -2)

\* principal + monthlyPayment x 12 x k, exactly.
ExactContributions(r, k) ==
    DecAdd(DecFromInput(r.principal),
           DecMul(DecFromInput(r.monthly_payment), DecFromInt(12 * k)))

ZeroRate(r) == DecIsZero(DecFromInput(r.annual_rate))

\* Every field but the rate is inside the range of every validation step.
OtherFieldsInRange(r) ==
    LET r1 == [r EXCEPT !.annual_rate = Num(1, 0)]
    IN  /\ RequestModelAccepts(r1)
        /\ ValidateRequest(r1) = {}
        /\ InputValidatorAccepts(r1)

\* C3: for every input with rate 0 the calculation returns a result, with
\* final_amount = total_contributions and total_interest = 0, and no period
\* accrues interest.
C3_ZeroRateIdentity ==
    ZeroRate(request) /\ OtherFieldsInRange(request) /\ pc # "idle" =>
        /\ pc # "rejected"
        /\ pc = "period" => DecIsZero(year_interest)
        /\ pc = "done" =>
               /\ response.final_amount = response.total_contributions
               /\ response.total_interest = 0

\* The part of C3 the engine satisfies: whenever it runs at rate 0 (reached
\* through validate_calculation_input), no interest accrues.
C3_ZeroRateEngine ==
    ZeroRate(request) =>
        /\ pc = "period" => DecIsZero(year_interest)
        /\ pc = "done" =>
               /\ response.final_amount = response.total_contributions
               /\ response.total_interest = 0

\* The engine has returned a result for a rate of 0 with payments.
C3_EngineWitness ==
    /\ pc = "done"
    /\ ZeroRate(request)
    /\ DecGt(monthly_payment, DecZero)

\* C4: the returned yearly_breakdown has exactly `years` entries and the
\* end_amount of the last one is within 0.01 of the returned final_amount.
C4_BreakdownLength ==
    pc = "done" =>
        LET entries == response.yearly_breakdown
        IN  /\ Len(entries) = request.years
            /\ Len(entries) >= 1
            /\ Abs(entries[Len(entries)].end_amount - response.final_amount) <= 1

\* A second call over two years or more, with payments, has returned.
C4_Witness ==
    /\ pc = "done"
    /\ previous.status = "ok"
    /\ request.years >= 2
    /\ DecGt(monthly_payment, DecZero)
    /\ Len(response.yearly_breakdown) = request.years

\* end_amount - (start_amount + contributions + interest) of an entry.
EntryResidual(e) == e.end_amount - (e.start_amount + e.contributions + e.interest)

\* C5: every breakdown entry satisfies
\* |end_amount - (start_amount + contributions + interest)| <= 0.01.
C5_EntryBalance ==
    \A i \in 1..Len(yearly_breakdown) : Abs(EntryResidual(yearly_breakdown[i])) <= 1

\* An entry with contributions whose four rounded values differ by a cent.
C5_Witness ==
    \E i \in 1..Len(yearly_breakdown) :
        /\ yearly_breakdown[i].contributions > 0
        /\ yearly_breakdown[i].interest > 0
        /\ Abs(EntryResidual(yearly_breakdown[i])) = 1

\* C6: for the same principal, rate, years and monthly payment, the final
\* amounts of two calls are ordered as their compounding frequencies:
\* final_amount(yearly) <= final_amount(quarterly) <= final_amount(monthly).
C6_FrequencyMonotone ==
    pc = "done" /\ previous.status = "ok" =>
        LET before == PeriodsPerYear(previous.request.compound_frequency)
            after == PeriodsPerYear(request.compound_frequency)
        IN  /\ before <= after =>
                   previous.response.final_amount <= response.final_amount
            /\ before >= after =>
                   previous.response.final_amount >= response.final_amount

\* With payments, a yearly call followed by a monthly call that returned more.
C6_Witness ==
    /\ pc = "done"
    /\ previous.status = "ok"
    /\ DecGt(monthly_payment, DecZero)
    /\ previous.request.compound_frequency = "yearly"
    /\ request.compound_frequency = "monthly"
    /\ previous.response.final_amount < response.final_amount

\* C7 as stated: two calls with identical arguments return results in which
\* every field is identical.
C7_EveryFieldIdentical ==
    pc = "done" /\ previous.status = "ok" /\ previous.request = request =>
        response = previous.response

\* C7 amended: two calls with identical arguments, made at any two times,
\* return results that agree in every field except calculation_time.
C7_Deterministic ==
    pc = "done" /\ previous.status = "ok" /\ previous.request = request =>
        /\ DOMAIN response = DOMAIN previous.response
        /\ \A field \in DOMAIN response \ {"calculation_time"} :
               response[field] = previous.response[field]

\* Two calls with identical arguments have returned at different times.
C7_Witness ==
    /\ pc = "done"
    /\ previous.status = "ok"
    /\ previous.request = request
    /\ request.years >= 2
    /\ response.calculation_time # previous.response.calculation_time

\* interest / start x 100, and 0 when start is 0.
InterestOverStart(interest, start) ==
    IF DecGt(start, DecZero)
    THEN DecMul(DecDiv(interest, start), DecFromInt(100))
    ELSE DecZero

\* C8: the growth_rate of every breakdown entry is that year's interest
\* divided by that year's start amount, times 100 (stated for each entry when
\* it is appended, while the year's un-rounded values are at hand).
C8_GrowthRateFromInterest ==
    pc = "year" /\ Len(yearly_breakdown) >= 1 =>
        yearly_breakdown[Len(yearly_breakdown)].growth_rate =
            Quantize2(InterestOverStart(year_interest, year_start_amount))

\* One of the preconditions is violated: non-positive principal, negative
\* rate, zero or negative years, unrecognized frequency.
PreconditionViolated(r) ==
    \/ ~DecGt(DecFromInput(r.principal), DecZero)
    \/ DecFromInput(r.annual_rate).neg
    \/ r.years <= 0
    \/ r.compound_frequency \notin AllowedFrequencies

\* C9: a call whose input violates a precondition fails at validation and
\* returns no result.
C9_InvalidInputFails ==
    PreconditionViolated(request) /\ pc # "idle" =>
        pc = "rejected" /\ response = NoResponse

\* A CalculatorRequest with an unrecognized frequency, and nothing else
\* wrong, has been rejected.
C9_Witness ==
    /\ pc = "rejected"
    /\ validated_by = "CalculatorRequest"
    /\ request.compound_frequency \notin AllowedFrequencies
    /\ RequestModelAccepts([request EXCEPT !.compound_frequency = "monthly"])

\* C10: an input with rate 0 and every other field in range is accepted by
\* the CalculatorRequest model, by validate_request and by
\* CalculatorInputValidator, and is never rejected on its way to the engine.
C10_ZeroRateAccepted ==
    ZeroRate(request) /\ OtherFieldsInRange(request) /\ pc # "idle" =>
        /\ RequestModelAccepts(request)
        /\ ValidateRequest(request) = {}
        /\ InputValidatorAccepts(request)
        /\ pc # "rejected"

\* Whether c hundredths is principal x (1 + rate / (100 n))^(n x years)
\* rounded half-up to 2 decimals, n the periods per year of the request; in
\* exact integer arithmetic (principal and rate written with exponents <= 0):
\* 2c - 1 <= 200 x amount < 2c + 1.
IsClosedFormAmount(r, c) ==
    LET n == PeriodsPerYear(r.compound_frequency)
        scale == Pow10(-r.annual_rate.e)
        periods == n * r.years
        den == MulMag(PowMag(Limbs(100 * n * scale), periods),
                      Limbs(Pow10(-r.principal.e)))
        num == MulMag(MulMag(Limbs(200), Limbs(r.principal.m)),
                      PowMag(Limbs(100 * n * scale + r.annual_rate.m), periods))
    IN  /\ CmpMag(MulMag(Limbs(2 * c - 1), den), num) <= 0
        /\ CmpMag(num, MulMag(Limbs(2 * c + 1), den)) < 0

\* C11: with monthlyPayment = 0 the returned final_amount is the closed-form
\* amount principal x (1 + rate/n)^(n x years) rounded half-up to 2 decimals,
\* for n = 12, 4, 1; Scenario 1 returns final_amount 14802.44 and
\* total_interest 4802.44.
C11_ClosedForm ==
    pc = "done" =>
        /\ DecIsZero(monthly_payment) =>
               IsClosedFormAmount(request, response.final_amount)
        /\ request = Scenario1 =>
               /\ response.final_amount = 1480244
               /\ response.total_interest = 480244

\* Scenario 1 has returned 14802.44, and the same calculation under monthly
\* compounding, which earned more, has returned its closed-form amount.
C11_Witness ==
    /\ pc = "done"
    /\ previous.status = "ok"
    /\ previous.request = Scenario1
    /\ previous.response.final_amount = 1480244
    /\ request.compound_frequency = "monthly"
    /\ response.final_amount > 1480244
    /\ IsClosedFormAmount(request, response.final_amount)

\* C12: every returned result has final_amount >= total_contributions and
\* total_interest >= 0 (every rate the engine runs at is >= 0); Scenario 3
\* returns total_contributions 12200.00 and a final_amount above it.
C12_NeverBelowContributions ==
    pc = "done" =>
        /\ response.final_amount >= response.total_contributions
        /\ response.total_interest >= 0
        /\ request = Scenario3 =>
               /\ response.total_contributions = 1220000
               /\ response.final_amount > 1220000

\* Scenario 3 has returned more than was paid in.
C12_Witness ==
    /\ pc = "done"
    /\ request = Scenario3
    /\ ~DecFromInput(request.annual_rate).neg
    /\ response.final_amount > response.total_contributions
    /\ response.total_interest > 0

(***************************************************************************)
(* The dictionary-returning CalculatorService (src/app/services)           *)
(***************************************************************************)

\* Digits carried while a power is computed: twice the context precision.
PowerPrec == 56

\* The product x * y * 10^e cut to its PowerPrec leading digits.
Truncate(x, y, e) ==
    CHOOSE t \in {LET n == NumDigits(c)
                  IN  IF n <= PowerPrec THEN [c |-> c, e |-> e]
                      ELSE [c |-> ShiftDown(c, n - PowerPrec),
                            e |-> e + (n - PowerPrec)] :
                  c \in {MulMag(x, y)}} : TRUE

RECURSIVE PowLimbs(_, _)
\* a^n as a coefficient and an exponent, by repeated squaring, every product
\* carried to PowerPrec digits.
PowLimbs(a, n) ==
    IF n = 0 THEN [c |-> <<1>>, e |-> 0]
    ELSE CHOOSE r \in {IF n % 2 = 0 THEN sq ELSE Truncate(a.c, sq.c, a.e + sq.e) :
                       sq \in {Truncate(h.c, h.c, h.e + h.e) :
                               h \in {PowLimbs(a, n \div 2)}}} : TRUE

\* a ** n for a Decimal a > 0 and an integer n >= 0, rounded to the context
\* precision.  Decimal.__pow__ returns the power to within one unit in the
\* last of the 28 digits; here it is the power carried to PowerPrec digits
\* and then rounded.
DecPow(a, n) ==
    CHOOSE r \in {RoundPrec(FALSE, p.c, p.e) :
                  p \in {PowLimbs(base, n) : base \in {a}}} : TRUE

\* _get_compound_periods: an unknown frequency counts as monthly.
GetCompoundPeriods(frequency) ==
    IF frequency = "monthly" THEN 12
    ELSE IF frequency = "quarterly" THEN 4
    ELSE IF frequency = "yearly" THEN 1
    ELSE 12

\* _calculate_simple_compound_interest: A = P (1 + r/n)^(n t).
CalculateSimpleCompoundInterest(p, rate, periods, years) ==
    IF DecIsZero(rate) THEN p
    ELSE CHOOSE amount \in
             {DecMul(p, compound_factor) :
              compound_factor \in
                  {DecPow(DecAdd(DecFromInt(1), period_rate), periods * years) :
                   period_rate \in {DecDiv(rate, DecFromInt(periods))}}} : TRUE

\* principal + (monthly_payment * 12 * years).
AppContributions(p, payment, years) ==
    DecAdd(p, DecMul(DecMul(payment, DecFromInt(12)), DecFromInt(years)))

\* The future value of the monthly payments at the monthly rate:
\* PMT * (((1 + r/12)^months - 1) / (r/12)).
PaymentsFinal(payment, monthly_rate, total_months) ==
    IF DecIsZero(monthly_rate) THEN DecMul(payment, DecFromInt(total_months))
    ELSE CHOOSE amount \in
             {DecMul(payment, DecDiv(DecSub(compound_factor, DecFromInt(1)),
                                     monthly_rate)) :
              compound_factor \in
                  {DecPow(DecAdd(DecFromInt(1), monthly_rate), total_months)}} :
             TRUE

\* _calculate_compound_interest_with_payments: the principal compounded at the
\* request's frequency plus the future value of a monthly annuity.
CalculateCompoundInterestWithPayments(p, payment, rate, periods, years) ==
    IF DecIsZero(rate)
    THEN [final_amount |-> AppContributions(p, payment, years),
          total_contributions |-> AppContributions(p, payment, years)]
    ELSE CHOOSE result \in
             {[final_amount |->
                   DecAdd(CalculateSimpleCompoundInterest(p, rate, periods, years),
                          PaymentsFinal(payment, monthly_rate, years * 12)),
               total_contributions |-> AppContributions(p, payment, years)] :
              monthly_rate \in {DecDiv(rate, DecFromInt(12))}} : TRUE

\* Lines 39-49 of calculate_compound_interest: the closed form that applies.
AppFinal(p, payment, rate, periods, years) ==
    IF DecIsZero(payment)
    THEN [final_amount |->
              CalculateSimpleCompoundInterest(p, rate, periods, years),
          total_contributions |-> p]
    ELSE CalculateCompoundInterestWithPayments(p, payment, rate, periods, years)

\* One year of _generate_yearly_breakdown, from the amount at its start: the
\* year's payments are taken as paid in at mid-year and earn the annual rate.
AppYearInterest(start, payment, rate) ==
    IF DecIsZero(rate) THEN DecZero
    ELSE DecMul(DecAdd(start, DecDiv(DecMul(payment, DecFromInt(12)),
                                     DecFromInt(2))),
                rate)

AppYearEnd(start, payment, rate) ==
    DecAdd(DecAdd(start, DecMul(payment, DecFromInt(12))),
           AppYearInterest(start, payment, rate))

\* The entry of the year; the float-valued growth_rate is left out.
AppBreakdownEntry(y, start, payment, rate) ==
    [year |-> y,
     start_amount |-> Quantize2(start),
     contributions |-> Quantize2(DecMul(payment, DecFromInt(12))),
     interest |-> Quantize2(AppYearInterest(start, payment, rate)),
     end_amount |-> Quantize2(AppYearEnd(start, payment, rate))]

\* The engine is not running.
EngineOff ==
    /\ request = Scenario1
    /\ validated_by = "none"
    /\ pc = "off"
    /\ principal = DecZero /\ monthly_payment = DecZero /\ annual_rate = DecZero
    /\ periods_per_year = 0 /\ rate_per_period = DecZero
    /\ current_amount = DecZero /\ total_contributions = DecZero
    /\ yearly_breakdown = <<>>
    /\ year = 0 /\ period = 0
    /\ year_start_amount = DecZero /\ year_contributions = DecZero
    /\ year_interest = DecZero
    /\ interest_accrued = DecZero
    /\ response = NoResponse
    /\ previous = NoCall
    /\ now = 0

\* Everything but the call of the dictionary-returning service.
app_others == <<engine_vars, limits, caching, limiter, ops_vars>>

AppInit ==
    /\ app \in [pc : {"idle"}, request : Requests]
    /\ EngineOff
    /\ limits = Off /\ caching = Off /\ limiter = Off
    /\ OpsOff

\* The caller builds the CalculatorRequest.
AppCreateRequest ==
    /\ app.pc = "idle"
    /\ app' = [app EXCEPT
                  !.pc = IF RequestModelAccepts(app.request) THEN "created"
                         ELSE "rejected"]
    /\ UNCHANGED app_others

\* calculate_compound_interest up to total_interest: the final amount and the
\* contributions come from the closed-form formulas.
AppCalculate ==
    /\ app.pc = "created"
    /\ \E p \in {DecFromInput(app.request.principal)},
          payment \in {DecFromInput(app.request.monthly_payment)},
          rate \in {DecDiv(DecFromInput(app.request.annual_rate), DecFromInt(100))} :
          \E closed \in {AppFinal(p, payment, rate,
                                  GetCompoundPeriods(app.request.compound_frequency),
                                  app.request.years)} :
              app' = [pc |-> "breakdown",
                      request |-> app.request,
                      principal |-> p,
                      monthly_payment |-> payment,
                      annual_rate |-> rate,
                      final_amount |-> closed.final_amount,
                      total_contributions |-> closed.total_contributions,
                      total_interest |->
                          DecSub(closed.final_amount, closed.total_contributions),
                      current_amount |-> p,
                      year |-> 1,
                      breakdown |-> <<>>]
    /\ UNCHANGED app_others

\* One iteration of the loop of _generate_yearly_breakdown.
AppBreakdownYear ==
    /\ app.pc = "breakdown"
    /\ app.year <= app.request.years
    /\ app' = [app EXCEPT
                  !.breakdown =
                      Append(@, AppBreakdownEntry(app.year, app.current_amount,
                                                  app.monthly_payment,
                                                  app.annual_rate)),
                  !.current_amount =
                      AppYearEnd(@, app.monthly_payment, app.annual_rate),
                  !.year = @ + 1]
    /\ UNCHANGED app_others

\* The returned dictionary, amounts rounded half-up to hundredths.
AppReturn ==
    /\ app.pc = "breakdown"
    /\ app.year > app.request.years
    /\ app' = [pc |-> "done",
               request |-> app.request,
               final_amount |-> Quantize2(app.final_amount),
               total_contributions |-> Quantize2(app.total_contributions),
               total_interest |-> Quantize2(app.total_interest),
               yearly_breakdown |-> app.breakdown]
    /\ UNCHANGED app_others

AppNext ==
    \/ AppCreateRequest
    \/ AppCalculate
    \/ AppBreakdownYear
    \/ AppReturn

AppSpec == AppInit /\ [][AppNext]_vars

\* C13: in the dictionary-returning service the end_amount of the last
\* yearly_breakdown entry is within 0.01 of the returned final_amount, for
\* every valid input.
C13_AppBreakdownMatchesFinal ==
    app.pc = "done" =>
        LET entries == app.yearly_breakdown
        IN  /\ Len(entries) = app.request.years
            /\ Abs(entries[Len(entries)].end_amount - app.final_amount) <= 1

(***************************************************************************)
(* Annualized return and the order of payments and interest                *)
(***************************************************************************)

\* t hundredths of a percent is ((ratio)^(1/n) - 1) * 100 rounded half-up:
\* (1 + (t - 0.5) / 10000)^n <= ratio < (1 + (t + 0.5) / 10000)^n.
IsAnnualizedReturn(ratio, n, t) ==
    /\ RootCmp(ratio, n, 2 * t - 1) >= 0
    /\ RootCmp(ratio, n, 2 * t + 1) < 0

MonthlyWithPayment ==
    /\ pc = "period"
    /\ request.compound_frequency = "monthly"
    /\ DecGt(monthly_payment, DecZero)

\* after = (before + payment) * (1 + rate / 12) for the rate in percent: the
\* two sides times 1200 differ by less than half a hundredth.
GrownWithPayment(before, payment, percent, after) ==
    Quantize2(DecSub(DecMul(after, DecFromInt(1200)),
                     DecMul(DecAdd(before, payment),
                            DecAdd(DecFromInt(1200), percent)))) = 0

\* C15: with monthly compounding and a payment, every period of every year
\* adds the payment before the interest of the period is computed: the amount
\* after the period is (amount before + payment) * (1 + rate / 12), and the
\* first period starts from the principal.
C15_PaymentBeforeInterest ==
    [][(MonthlyWithPayment /\ period' = period + 1)
           => /\ period < 12
              /\ (year = 1 /\ period = 0) => current_amount = principal
              /\ GrownWithPayment(current_amount, monthly_payment,
                                  DecFromInput(request.annual_rate),
                                  current_amount')
              /\ total_contributions' = DecAdd(total_contributions, monthly_payment)
      ]_vars

\* The first monthly period of a calculation with payments has run and the
\* payment has earned interest.
C15_Witness ==
    /\ MonthlyWithPayment
    /\ year = 1 /\ period = 1
    /\ DecGt(annual_rate, DecZero)
    /\ GrownWithPayment(principal, monthly_payment,
                        DecFromInput(request.annual_rate), current_amount)
    /\ DecGt(current_amount, DecAdd(principal, monthly_payment))

\* Quarterly or yearly compounding with a payment.
AnnualWithPayment ==
    /\ request.compound_frequency \in {"quarterly", "yearly"}
    /\ DecGt(monthly_payment, DecZero)

RECURSIVE Accrued(_, _, _)
\* What an amount has grown to after n periods without any payment.
Accrued(amount, rate, n) ==
    IF n = 0 THEN amount
    ELSE CHOOSE after \in {DecAdd(before, DecMul(before, rate)) :
                           before \in {Accrued(amount, rate, n - 1)}} : TRUE

\* principal + k * (monthly_payment * 12).
PaidAfterYears(k) ==
    DecAdd(principal, DecMul(DecMul(monthly_payment, DecFromInt(12)), DecFromInt(k)))

\* C16: with quarterly or yearly compounding and a payment, nothing is paid in
\* during the periods of a year (the amount is the year's start amount with
\* its accruals only) and monthly_payment * 12 is added once when the year
\* ends; a calculation over one year returns the total interest of the
\* principal alone.
C16_AnnualContributionAtYearEnd ==
    AnnualWithPayment =>
        /\ pc = "period" =>
               /\ DecIsZero(year_contributions)
               /\ total_contributions = PaidAfterYears(year - 1)
               /\ current_amount = Accrued(year_start_amount, rate_per_period, period)
        /\ pc = "year" =>
               /\ total_contributions = PaidAfterYears(year - 1)
               /\ \A k \in 1..Len(yearly_breakdown) :
                      yearly_breakdown[k].contributions
                          = Quantize2(DecMul(monthly_payment, DecFromInt(12)))
        /\ (pc = "done" /\ request.years = 1) =>
               response.total_interest
                   = Quantize2(DecSub(Accrued(principal, rate_per_period,
                                              periods_per_year),
                                      principal))

\* A one-year quarterly calculation with payments has returned interest.
C16_Witness ==
    /\ AnnualWithPayment
    /\ pc = "done"
    /\ request.years = 1
    /\ request.compound_frequency = "quarterly"
    /\ response.total_interest > 0
    /\ response.total_contributions = Quantize2(PaidAfterYears(1))

(***************************************************************************)
(* validate_api_limits                                                     *)
(***************************************************************************)

\* The input at the maximum of every range of CalculatorInputValidator
\* (test_validate_api_limits_investment_too_large).
MaximalInput ==
    [principal |-> Num(10000000, 0), monthly_payment |-> Num(50000, 0),
     annual_rate |-> Num(5, 0), years |-> 50, compound_frequency |-> "monthly"]

\* Arguments given to CalculatorInputValidator: in range, at the maxima and
\* beyond them.
LimitInputs ==
    [principal : {Num(1, 0), Num(10000, 0), Num(12345678, -3),
                  Num(10000000, 0), Num(10000001, 0)},
     monthly_payment : {Num(0, 0), Num(1000, 0), Num(1005, -3),
                        Num(50000, 0), Num(50001, 0)},
     annual_rate : {Num(5, 0)},
     years : {0, 1, 30, 50, 60},
     compound_frequency : {"monthly"}]
      \cup {MaximalInput}

\* validate_api_limits(data): the code of the HTTPException it raises, or "ok".
ValidateApiLimitsResult(data) ==
    LET total_periods == data.years * 12
        total_investment ==
            DecAdd(DecFromInput(data.principal),
                   DecMul(DecMul(DecFromInput(data.monthly_payment), DecFromInt(12)),
                          DecFromInt(data.years)))
    IN  IF total_periods > 600 THEN "CALCULATION_TOO_COMPLEX"
        ELSE IF DecGt(total_investment, DecFromInt(50000000))
             THEN "INVESTMENT_TOO_LARGE"
        ELSE "ok"

\* Everything but the call of validate_api_limits.
limits_others == <<engine_vars, app, caching, limiter, ops_vars>>

LimitsInit ==
    /\ limits \in [pc : {"input"}, data : LimitInputs]
    /\ EngineOff
    /\ app = Off /\ caching = Off /\ limiter = Off
    /\ OpsOff

\* CalculatorInputValidator(**data): pydantic raises for a field out of range.
LimitsConstruct ==
    /\ limits.pc = "input"
    /\ limits' = [limits EXCEPT
                     !.pc = IF InputValidatorAccepts(limits.data) THEN "validated"
                            ELSE "invalid"]
    /\ UNCHANGED limits_others

\* validate_api_limits(validator).
ValidateApiLimits ==
    /\ limits.pc = "validated"
    /\ limits' = [pc |-> "checked",
                  data |-> limits.data,
                  status_code |->
                      IF ValidateApiLimitsResult(limits.data) = "ok" THEN 200 ELSE 422,
                  code |-> ValidateApiLimitsResult(limits.data)]
    /\ UNCHANGED limits_others

LimitsNext ==
    \/ LimitsConstruct
    \/ ValidateApiLimits

LimitsSpec == LimitsInit /\ [][LimitsNext]_vars

\* C17: validate_api_limits answers the input at the maximum of every range
\* of CalculatorInputValidator (principal 10,000,000, monthly payment 50,000,
\* 50 years) with 422 INVESTMENT_TOO_LARGE.
C17_MaximalInputTooLarge ==
    (limits.pc = "checked" /\ limits.data = MaximalInput) =>
        /\ limits.status_code = 422
        /\ limits.code = "INVESTMENT_TOO_LARGE"

(***************************************************************************)
(* cache_response_middleware in front of POST /calculator/compound-interest *)
(* (main.py leaves its registration commented out; this is the middleware   *)
(* as it serves a request once registered)                                  *)
(***************************************************************************)

\* Entries the MemoryCache holds before a set evicts one (MAX_CACHE_SIZE,
\* 1000 in the code).
MaxCacheSize == 1

\* Seconds an entry lives (CALCULATION_CACHE_TTL, 300 in the code).
CacheTTL == 1

\* Requests followed and seconds on the clock.
MaxRequests == 3

MaxClock == 2

\* Request bodies: three valid calculations and one the handler answers
\* with 422.
ValidBodies == {"a", "b", "c"}

CacheBodies == ValidBodies \cup {"bad"}

NoTime == -1

NoContent == [result_of |-> "none"]

\* What call_next returns: final_amount, total_contributions and
\* total_interest are a function of the body (result_of).
HandlerResponse(body) ==
    IF body \in ValidBodies
    THEN [status_code |-> 200, content |-> [result_of |-> body]]
    ELSE [status_code |-> 422, content |-> NoContent]

\* A faulty variant: an entry counts as expired at its deadline already.
ExpiredAtDeadline(entry, t) == t >= entry.expires_at

\* time.time() > cache_entry['expires_at']
Expired(entry, t) == t > entry.expires_at

\* s without the key k.
WithoutKey(s, k) == SelectSeq(s, LAMBDA x : x # k)

\* f without the key k.
DropKey(f, k) == [x \in DOMAIN f \ {k} |-> f[x]]

\* MemoryCache.get: the value, or "none" (an expired entry is deleted), and
\* the cache after the call.  lru lists the keys by _access_times, oldest
\* first.
MemoryCacheGet(entries, lru, key, t) ==
    IF key \notin DOMAIN entries
    THEN [value |-> NoContent, found |-> FALSE, entries |-> entries, lru |-> lru]
    ELSE IF Expired(entries[key], t)
    THEN [value |-> NoContent, found |-> FALSE,
          entries |-> DropKey(entries, key), lru |-> WithoutKey(lru, key)]
    ELSE [value |-> entries[key].value, found |-> TRUE,
          entries |-> entries, lru |-> Append(WithoutKey(lru, key), key)]

\* _cleanup_if_needed: the key a set deletes first, or "none".
OldestKey(entries, lru) ==
    IF Cardinality(DOMAIN entries) >= MaxCacheSize /\ Len(lru) > 0
    THEN lru[1] ELSE "none"

\* MemoryCache.set with the calculation TTL.
MemoryCacheSet(entries, lru, key, value, t) ==
    LET oldest == OldestKey(entries, lru)
        kept == IF oldest = "none" THEN entries ELSE DropKey(entries, oldest)
        order == IF oldest = "none" THEN lru ELSE WithoutKey(lru, oldest)
    IN  [entries |-> [x \in DOMAIN kept \cup {key} |->
                         IF x = key
                         THEN [value |-> value, expires_at |-> t + CacheTTL]
                         ELSE kept[x]],
         lru |-> Append(WithoutKey(order, key), key)]

\* A result stored at the time `stored` is within its TTL at the time t.
Fresh(stored, t) == stored # NoTime /\ t <= stored + CacheTTL

\* Everything but the cache middleware.
caching_others == <<engine_vars, app, limits, limiter, ops_vars>>

\* An empty cache, no request yet.  stored_at and evicted are history: when a
\* 200 result of the body was last stored (NoTime after clear()), and the
\* bodies whose entry a later set has evicted.
CacheInit ==
    /\ caching = [entries |-> <<>>, lru |-> <<>>, requests |-> <<>>, clock |-> 0,
                  stored_at |-> [b \in CacheBodies |-> NoTime], evicted |-> {}]
    /\ EngineOff
    /\ app = Off /\ limits = Off /\ limiter = Off
    /\ OpsOff

\* A request arrives and the middleware runs up to "await call_next": the body
\* is looked up; a hit is answered at once, a miss goes on to the handler.
CacheLookup(body) ==
    /\ Len(caching.requests) < MaxRequests
    /\ LET got == MemoryCacheGet(caching.entries, caching.lru, body, caching.clock)
           done_before == {j \in 1..Len(caching.requests) :
                               caching.requests[j].pc = "done"}
           history == [fresh |-> Fresh(caching.stored_at[body], caching.clock),
                       was_evicted |-> body \in caching.evicted,
                       done_before |-> done_before]
           answered ==
               IF got.found
               THEN [body |-> body, pc |-> "done", status_code |-> 200,
                     x_cache |-> "HIT", content |-> got.value, history |-> history]
               ELSE [body |-> body, pc |-> "handler", status_code |-> 0,
                     x_cache |-> "none", content |-> NoContent, history |-> history]
       IN  caching' = [caching EXCEPT !.entries = got.entries,
                                      !.lru = got.lru,
                                      !.requests = Append(@, answered)]
    /\ UNCHANGED caching_others

\* call_next returns and the middleware runs to its end: a 200 result is
\* stored and answered X-Cache: MISS, any other response is passed on.
CacheHandlerReturn(i) ==
    /\ i \in 1..Len(caching.requests)
    /\ caching.requests[i].pc = "handler"
    /\ LET body == caching.requests[i].body
           handled == HandlerResponse(body)
           oldest == OldestKey(caching.entries, caching.lru)
           set == MemoryCacheSet(caching.entries, caching.lru, body,
                                 handled.content, caching.clock)
       IN  IF handled.status_code = 200
           THEN caching' =
                    [caching EXCEPT
                        !.entries = set.entries,
                        !.lru = set.lru,
                        !.stored_at[body] = caching.clock,
                        !.evicted = (@ \cup (IF oldest = "none" THEN {} ELSE {oldest}))
                                        \ {body},
                        !.requests[i] =
                            [@ EXCEPT !.pc = "done", !.status_code = 200,
                                      !.x_cache = "MISS",
                                      !.content = handled.content]]
           ELSE caching' =
                    [caching EXCEPT
                        !.requests[i] =
                            [@ EXCEPT !.pc = "done",
                                      !.status_code = handled.status_code]]
    /\ UNCHANGED caching_others

\* A second passes.
CacheTick ==
    /\ caching.clock < MaxClock
    /\ caching' = [caching EXCEPT !.clock = @ + 1]
    /\ UNCHANGED caching_others

\* cache_manager.cache.clear()
CacheClear ==
    /\ caching.entries # <<>>
    /\ caching' = [caching EXCEPT !.entries = <<>>, !.lru = <<>>,
                                  !.stored_at = [b \in CacheBodies |-> NoTime],
                                  !.evicted = {}]
    /\ UNCHANGED caching_others

CacheNext ==
    \/ \E body \in CacheBodies : CacheLookup(body)
    \/ \E i \in 1..MaxRequests : CacheHandlerReturn(i)
    \/ CacheTick
    \/ CacheClear

CacheSpec == CacheInit /\ [][CacheNext]_vars

\* The requests with a 200 answer.
Answered200 ==
    {i \in 1..Len(caching.requests) :
        caching.requests[i].pc = "done" /\ caching.requests[i].status_code = 200}

\* C18 as stated: a request whose body had a 200 result stored, with neither
\* the TTL elapsed nor clear() called since, is answered X-Cache: HIT with the
\* stored result; any other request with a 200 answer is a MISS.
C18_HitUntilExpiryOrClear ==
    caching # Off =>
        \A i \in Answered200 :
            LET r == caching.requests[i]
            IN  IF r.history.fresh
                THEN r.x_cache = "HIT" /\ r.content = HandlerResponse(r.body).content
                ELSE r.x_cache = "MISS"

\* C18, amended: a request is answered X-Cache: HIT with the stored result
\* exactly when a 200 result of its body was stored and since then the TTL
\* has not elapsed, clear() was not called and no later set has evicted the
\* entry (a set deletes the least recently used entry when the cache is
\* full); otherwise a request with a 200 answer is a MISS.
C18_HitUntilExpiryClearOrEviction ==
    caching # Off =>
        \A i \in Answered200 :
            LET r == caching.requests[i]
            IN  IF r.history.fresh /\ ~r.history.was_evicted
                THEN r.x_cache = "HIT" /\ r.content = HandlerResponse(r.body).content
                ELSE r.x_cache = "MISS"

\* One body was answered MISS, then HIT, then, after its TTL, MISS again.
C18_Witness ==
    /\ caching # Off
    /\ Len(caching.requests) = 3
    /\ \A i \in 1..3 : caching.requests[i].body = "a" /\ caching.requests[i].pc = "done"
    /\ caching.requests[1].x_cache = "MISS"
    /\ caching.requests[2].x_cache = "HIT" /\ caching.requests[2].history.fresh
    /\ caching.requests[3].x_cache = "MISS" /\ ~caching.requests[3].history.fresh
    /\ caching.stored_at["a"] = 2

\* Neither request was answered before the other was looked up.
Concurrent(i, j) ==
    /\ i \notin caching.requests[j].history.done_before
    /\ j \notin caching.requests[i].history.done_before

\* C19: of several requests with the same body that are in the middleware at
\* the same time, every one gets 200 and at least one is answered from the
\* cache.
C19_ConcurrentSomeHit ==
    caching # Off =>
        \A G \in SUBSET (1..Len(caching.requests)) :
            (/\ Cardinality(G) >= 2
             /\ \A i \in G : /\ caching.requests[i].pc = "done"
                             /\ caching.requests[i].body \in ValidBodies
             /\ \A i, j \in G : /\ caching.requests[i].body = caching.requests[j].body
                                /\ i # j => Concurrent(i, j))
                => /\ \A i \in G : caching.requests[i].status_code = 200
                   /\ \E i \in G : caching.requests[i].x_cache = "HIT"

(***************************************************************************)
(* RateLimitMiddleware                                                     *)
(***************************************************************************)

\* RATE_LIMIT_CONFIG['requests_per_minute'], 60 in the code.
RequestsPerMinute == 2

\* RATE_LIMIT_CONFIG['window_size'] in seconds, 60 in the code.
WindowSize == 2

\* Seconds on the clock and requests followed.
MaxLimiterClock == 3

MaxDispatches == 5

WhitelistIps == {"127.0.0.1"}

ClientIps == WhitelistIps \cup {"10.0.0.1", "10.0.0.2"}

\* The timestamps of a list that lie after window_start.
After(timestamps, window_start) ==
    SelectSeq(timestamps, LAMBDA timestamp : timestamp > window_start)

\* A faulty variant: the limit counts as reached one request late.
LimitReachedLate(request_count) == request_count > RequestsPerMinute

\* request_count >= limit
LimitReached(request_count) == request_count >= RequestsPerMinute

\* is_rate_limited(ip) at the time t: its answer, and request_counts[ip] and
\* blocked_ips after the call.
IsRateLimited(ip, request_counts, blocked_ips, t) ==
    IF ip \in WhitelistIps
    THEN [limited |-> FALSE, counts |-> request_counts[ip], blocked |-> blocked_ips]
    ELSE IF ip \in blocked_ips
    THEN [limited |-> TRUE, counts |-> request_counts[ip], blocked |-> blocked_ips]
    ELSE LET recent == After(request_counts[ip], t - WindowSize)
         IN  IF LimitReached(Len(recent))
             THEN [limited |-> TRUE, counts |-> recent,
                   blocked |-> blocked_ips \cup {ip}]
             ELSE [limited |-> FALSE, counts |-> Append(recent, t),
                   blocked |-> blocked_ips]

\* Everything but the rate limiter.
limiter_others == <<engine_vars, app, limits, caching, ops_vars>>

\* No request yet.  passed is history: when the requests of an IP reached the
\* handler; last is the latest answer, with the number of requests of its IP
\* that had passed within the window before it.
LimiterInit ==
    /\ limiter = [request_counts |-> [ip \in ClientIps |-> <<>>],
                  blocked_ips |-> {},
                  clock |-> 0,
                  passed |-> [ip \in ClientIps |-> <<>>],
                  dispatched |-> 0,
                  last |-> [ip |-> "none", status_code |-> 0, error |-> "none",
                            reached_handler |-> FALSE, passed_in_window |-> 0]]
    /\ EngineOff
    /\ app = Off /\ limits = Off /\ caching = Off
    /\ OpsOff

\* dispatch(request, call_next) for a request of the client ip.
Dispatch(ip) ==
    /\ limiter.dispatched < MaxDispatches
    /\ LET checked == IsRateLimited(ip, limiter.request_counts,
                                    limiter.blocked_ips, limiter.clock)
           in_window == Len(After(limiter.passed[ip], limiter.clock - WindowSize))
       IN  limiter' =
               [limiter EXCEPT
                   !.request_counts[ip] = checked.counts,
                   !.blocked_ips = checked.blocked,
                   !.dispatched = @ + 1,
                   !.passed[ip] = IF checked.limited THEN @
                                  ELSE Append(@, limiter.clock),
                   !.last = IF checked.limited
                            THEN [ip |-> ip, status_code |-> 429,
                                  error |-> "RATE_LIMIT_EXCEEDED",
                                  reached_handler |-> FALSE,
                                  passed_in_window |-> in_window]
                            ELSE [ip |-> ip, status_code |-> 200,
                                  error |-> "none",
                                  reached_handler |-> TRUE,
                                  passed_in_window |-> in_window]]
    /\ UNCHANGED limiter_others

\* A second passes.
LimiterTick ==
    /\ limiter.clock < MaxLimiterClock
    /\ limiter' = [limiter EXCEPT !.clock = @ + 1]
    /\ UNCHANGED limiter_others

LimiterNext ==
    \/ \E ip \in ClientIps : Dispatch(ip)
    \/ LimiterTick

LimiterSpec == LimiterInit /\ [][LimiterNext]_vars

\* The requests of ip that reached the handler in the window that ends at t.
PassedInWindow(ip, t) ==
    {k \in 1..Len(limiter.passed[ip]) :
        limiter.passed[ip][k] > t - WindowSize /\ limiter.passed[ip][k] <= t}

C21_ServedAfterWindow ==
    limiter # Off =>
        (limiter.last.status_code = 429 => limiter.last.passed_in_window > 0)

(***************************************************************************)
(* AlertManager                                                            *)
(***************************************************************************)

\* Calls of check_alerts followed.
MaxChecks == 3

\* The rules added with add_alert_rule, in the order of alert_rules.
AlertRules ==
    <<[name |-> "high_cpu", metric_name |-> "cpu", threshold |-> 5,
       comparison |-> "greater_than", channels |-> <<"email", "pager">>],
      [name |-> "low_mem", metric_name |-> "mem", threshold |-> 5,
       comparison |-> "less_than", channels |-> <<"log">>],
      [name |-> "cpu_at_limit", metric_name |-> "cpu", threshold |-> 5,
       comparison |-> "equals", channels |-> <<"email">>]>>

\* The channels given to register_notification_channel; "log", the default
\* channel of a rule, is not among them.
NotificationChannels == {"email", "pager"}

\* The MetricData a check can be given.
Samples == [name : {"cpu", "mem"}, value : {3, 5, 7}, timestamp : {1, 2}]

MetricLists == {<<>>} \cup {<<a>> : a \in Samples} \cup {<<a, b>> : a, b \in Samples}

\* f"{rule['name']}_{metric_name}"
AlertId(rule) == rule.name \o "_" \o rule.metric_name

\* [m for m in metrics if m.name == metric_name]
RelevantMetrics(metrics, metric_name) ==
    SelectSeq(metrics, LAMBDA sample : sample.name = metric_name)

\* max(relevant_metrics, key=lambda m: m.timestamp): the first of the samples
\* with the largest timestamp.
LatestMetric(relevant) ==
    relevant[CHOOSE i \in 1..Len(relevant) :
                 /\ \A j \in 1..Len(relevant) :
                        relevant[j].timestamp <= relevant[i].timestamp
                 /\ \A j \in 1..(i - 1) :
                        relevant[j].timestamp < relevant[i].timestamp]

\* should_alert
ShouldAlert(comparison, current_value, threshold) ==
    \/ comparison = "greater_than" /\ current_value > threshold
    \/ comparison = "less_than" /\ current_value < threshold
    \/ comparison = "equals" /\ current_value = threshold

\* A faulty variant: an active alert is not recognised.
IsActiveNever(alert_id, active_alerts) == FALSE

\* alert_id in self.active_alerts
IsActive(alert_id, active_alerts) == alert_id \in DOMAIN active_alerts

RECURSIVE SendNotifications(_, _, _, _)
\* _send_notifications: the handlers invoked, in the order of the channels.
SendNotifications(channels, k, alert_id, t) ==
    IF k > Len(channels) THEN <<>>
    ELSE (IF channels[k] \in NotificationChannels
          THEN <<[channel |-> channels[k], alert_id |-> alert_id, at |-> t]>>
          ELSE <<>>)
         \o SendNotifications(channels, k + 1, alert_id, t)

\* A faulty variant: a resolved alert stays in active_alerts.
ResolveKeepingActive(am, alert_id, t) ==
    [am EXCEPT !.alert_history[am.active_alerts[alert_id]] =
                   [@ EXCEPT !.resolved = TRUE, !.resolved_at = t]]

\* The else branch of _check_single_rule: the alert object, which the history
\* holds too, is marked and leaves active_alerts.
Resolve(am, alert_id, t) ==
    [am EXCEPT !.alert_history[am.active_alerts[alert_id]] =
                   [@ EXCEPT !.resolved = TRUE, !.resolved_at = t],
               !.active_alerts = [x \in DOMAIN @ \ {alert_id} |-> @[x]]]

\* _check_single_rule at the time t.  active_alerts maps an id to the place
\* of its Alert object in alert_history; sent lists the handler calls.
CheckSingleRule(am, rule, metrics, t) ==
    LET relevant == RelevantMetrics(metrics, rule.metric_name)
        alert_id == AlertId(rule)
    IN  IF Len(relevant) = 0 THEN am
        ELSE LET current_value == LatestMetric(relevant).value
             IN  IF ShouldAlert(rule.comparison, current_value, rule.threshold)
                 THEN IF IsActive(alert_id, am.active_alerts) THEN am
                      ELSE LET alert == [id |-> alert_id, name |-> rule.name,
                                         current_value |-> current_value,
                                         threshold |-> rule.threshold,
                                         timestamp |-> t,
                                         resolved |-> FALSE,
                                         resolved_at |-> 0]
                           IN  [am EXCEPT
                                   !.alert_history = Append(@, alert),
                                   !.active_alerts =
                                       [x \in DOMAIN @ \cup {alert_id} |->
                                           IF x = alert_id
                                           THEN Len(am.alert_history) + 1
                                           ELSE @[x]],
                                   !.sent = @ \o SendNotifications(rule.channels, 1,
                                                                   alert_id, t)]
                 ELSE IF IsActive(alert_id, am.active_alerts)
                      THEN Resolve(am, alert_id, t)
                      ELSE am

RECURSIVE CheckRulesFrom(_, _, _, _)
\* The loop of check_alerts from the k-th rule on.
CheckRulesFrom(am, k, metrics, t) ==
    IF k > Len(AlertRules) THEN am
    ELSE CHOOSE result \in
             {CheckRulesFrom(next, k + 1, metrics, t) :
              next \in {CheckSingleRule(am, AlertRules[k], metrics, t)}} : TRUE

\* What the latest value of the rule's metric in the list says: "violating",
\* "fine", or "absent" when the list has no sample of the metric.
Verdict(rule, metrics) ==
    LET relevant == RelevantMetrics(metrics, rule.metric_name)
    IN  IF Len(relevant) = 0 THEN "absent"
        ELSE IF ShouldAlert(rule.comparison, LatestMetric(relevant).value,
                            rule.threshold)
        THEN "violating"
        ELSE "fine"

\* Everything but the alert manager.
alerting_others == <<engine_vars, app, limits, caching, limiter,
                     monitor, collector, memory, http>>

\* No alert yet.  checks counts the calls and is the clock; violating_since
\* is history: the call that first saw the rule's metric beyond its threshold
\* in the present run of violating values, 0 outside such a run.
AlertInit ==
    /\ alerting = [active_alerts |-> <<>>, alert_history |-> <<>>, sent |-> <<>>,
                   checks |-> 0,
                   violating_since |-> [k \in 1..Len(AlertRules) |-> 0]]
    /\ EngineOff
    /\ app = Off /\ limits = Off /\ caching = Off /\ limiter = Off
    /\ monitor = Off /\ collector = Off /\ memory = Off /\ http = Off

\* check_alerts(metrics)
CheckAlerts(metrics) ==
    /\ alerting.checks < MaxChecks
    /\ LET t == alerting.checks + 1
           checked == CheckRulesFrom(alerting, 1, metrics, t)
       IN  alerting' =
               [checked EXCEPT
                   !.checks = t,
                   !.violating_since =
                       [k \in 1..Len(AlertRules) |->
                           LET verdict == Verdict(AlertRules[k], metrics)
                           IN  IF verdict = "absent" THEN @[k]
                               ELSE IF verdict = "fine" THEN 0
                               ELSE IF @[k] > 0 THEN @[k] ELSE t]]
    /\ UNCHANGED alerting_others

AlertNext == \E metrics \in MetricLists : CheckAlerts(metrics)

AlertSpec == AlertInit /\ [][AlertNext]_vars

\* The places in alert_history of the alerts of an id raised at t or later.
RaisedSince(alert_id, t) ==
    {k \in 1..Len(alerting.alert_history) :
        /\ alerting.alert_history[k].id = alert_id
        /\ alerting.alert_history[k].timestamp >= t}

\* The calls of a channel's handler for an id at t or later.
SentSince(channel, alert_id, t) ==
    {k \in 1..Len(alerting.sent) :
        /\ alerting.sent[k].channel = channel
        /\ alerting.sent[k].alert_id = alert_id
        /\ alerting.sent[k].at >= t}

\* C22: while the latest value of a rule's metric stays beyond the threshold
\* over consecutive checks, the rule has one active alert, which was appended
\* to alert_history once, on the check that first saw the violation, and each
\* registered channel of the rule was invoked once, on that check.
C22_OneAlertPerViolation ==
    alerting # Off =>
        \A k \in 1..Len(AlertRules) :
            LET rule == AlertRules[k]
                since == alerting.violating_since[k]
            IN  since > 0 =>
                    /\ AlertId(rule) \in DOMAIN alerting.active_alerts
                    /\ RaisedSince(AlertId(rule), since)
                           = {alerting.active_alerts[AlertId(rule)]}
                    /\ alerting.alert_history[alerting.active_alerts[AlertId(rule)]]
                           .timestamp = since
                    /\ \A c \in 1..Len(rule.channels) :
                           IF rule.channels[c] \in NotificationChannels
                           THEN /\ Cardinality(SentSince(rule.channels[c],
                                                         AlertId(rule), since)) = 1
                                /\ \A n \in SentSince(rule.channels[c],
                                                      AlertId(rule), since) :
                                       alerting.sent[n].at = since
                           ELSE SentSince(rule.channels[c], AlertId(rule), 0) = {}

\* A rule has been violated over three checks in a row and its two channels
\* were notified once.
C22_Witness ==
    /\ alerting # Off
    /\ alerting.checks = 3
    /\ alerting.violating_since[1] = 1
    /\ Len(alerting.alert_history) = 1
    /\ Len(alerting.sent) = 2

\* C23: a check that sees a latest value no longer beyond the threshold
\* removes the rule's alert from active_alerts and marks it resolved, with
\* resolved_at set, in alert_history, where it stays; no alert is active for
\* a rule whose metric was last seen fine.
C23_ResolvedWhenFine ==
    alerting # Off =>
        /\ \A k \in 1..Len(AlertRules) :
               alerting.violating_since[k] = 0
                   => AlertId(AlertRules[k]) \notin DOMAIN alerting.active_alerts
        /\ \A n \in 1..Len(alerting.alert_history) :
               LET alert == alerting.alert_history[n]
                   active == /\ alert.id \in DOMAIN alerting.active_alerts
                             /\ alerting.active_alerts[alert.id] = n
               IN  /\ alert.resolved <=> ~active
                   /\ alert.resolved => alert.resolved_at > alert.timestamp
                   /\ ~alert.resolved => alert.resolved_at = 0

\* An alert was raised and resolved by a later check, and is in the history.
C23_Witness ==
    /\ alerting # Off
    /\ alerting.active_alerts = <<>>
    /\ Len(alerting.alert_history) = 1
    /\ alerting.alert_history[1].resolved
    /\ alerting.alert_history[1].resolved_at = 2
    /\ alerting.alert_history[1].timestamp = 1

(***************************************************************************)
(* MonitoringService: start_monitoring, stop_monitoring and the loop task  *)
(***************************************************************************)

\* Calls of start_monitoring and stop_monitoring followed.
MaxCalls == 7

NoTask == 0

\* The tasks that have not ended: created, running, or with a cancellation
\* requested that they have not yet received.
AliveTasks(tasks) ==
    {i \in 1..Len(tasks) : tasks[i] \in {"created", "running", "cancelling"}}

\* task.cancel(): a task that has not ended gets the request.
Cancel(tasks, i) ==
    IF tasks[i] \in {"created", "running"} THEN [tasks EXCEPT ![i] = "cancelling"]
    ELSE tasks

\* Everything but the monitoring service.
monitor_others == <<engine_vars, app, limits, caching, limiter,
                    alerting, collector, memory, http>>

\* MonitoringService.__init__.  caller is where the one caller stands
\* ("idle", or "stopping" while stop_monitoring awaits the task); last is
\* history: the latest call, is_running and the number of tasks before it.
MonitorInit ==
    /\ monitor = [is_running |-> FALSE, monitoring_task |-> NoTask,
                  tasks |-> <<>>, caller |-> "idle", calls |-> 0,
                  last |-> [call |-> "none", was_running |-> FALSE,
                            tasks_before |-> 0]]
    /\ EngineOff
    /\ app = Off /\ limits = Off /\ caching = Off /\ limiter = Off
    /\ alerting = Off /\ collector = Off /\ memory = Off /\ http = Off

\* A faulty variant: start_monitoring without the is_running test.
StartMonitoringUnguarded ==
    /\ monitor.caller = "idle"
    /\ monitor.calls < MaxCalls
    /\ monitor' =
           [monitor EXCEPT
               !.calls = @ + 1,
               !.last = [call |-> "start", was_running |-> monitor.is_running,
                         tasks_before |-> Len(monitor.tasks)],
               !.is_running = TRUE,
               !.tasks = Append(@, "created"),
               !.monitoring_task = Len(monitor.tasks) + 1]
    /\ UNCHANGED monitor_others

\* await start_monitoring(): nothing when running, else the flag is set and
\* the loop task created.
StartMonitoring ==
    /\ monitor.caller = "idle"
    /\ monitor.calls < MaxCalls
    /\ monitor' =
           IF monitor.is_running
           THEN [monitor EXCEPT
                    !.calls = @ + 1,
                    !.last = [call |-> "start", was_running |-> TRUE,
                              tasks_before |-> Len(monitor.tasks)]]
           ELSE [monitor EXCEPT
                    !.calls = @ + 1,
                    !.last = [call |-> "start", was_running |-> FALSE,
                              tasks_before |-> Len(monitor.tasks)],
                    !.is_running = TRUE,
                    !.tasks = Append(@, "created"),
                    !.monitoring_task = Len(monitor.tasks) + 1]
    /\ UNCHANGED monitor_others

\* stop_monitoring up to "await self.monitoring_task": the flag is cleared and
\* the task, if there is one, cancelled.
StopMonitoringBegin ==
    /\ monitor.caller = "idle"
    /\ monitor.calls < MaxCalls
    /\ monitor' =
           [monitor EXCEPT
               !.calls = @ + 1,
               !.last = [call |-> "stop", was_running |-> monitor.is_running,
                         tasks_before |-> Len(monitor.tasks)],
               !.is_running = FALSE,
               !.tasks = IF monitor.monitoring_task = NoTask THEN @
                         ELSE Cancel(@, monitor.monitoring_task),
               !.caller = IF monitor.monitoring_task = NoTask THEN "idle"
                          ELSE "stopping"]
    /\ UNCHANGED monitor_others

\* The awaited task has ended: stop_monitoring returns.
StopMonitoringReturn ==
    /\ monitor.caller = "stopping"
    /\ monitor.tasks[monitor.monitoring_task] \in {"cancelled", "finished"}
    /\ monitor' = [monitor EXCEPT !.caller = "idle"]
    /\ UNCHANGED monitor_others

\* The loop task runs to its next await: another round while is_running, the
\* end of the loop otherwise.
MonitoringLoop(i) ==
    /\ i \in 1..Len(monitor.tasks)
    /\ monitor.tasks[i] \in {"created", "running"}
    /\ monitor' = [monitor EXCEPT
                      !.tasks[i] = IF monitor.is_running THEN "running"
                                   ELSE "finished"]
    /\ UNCHANGED monitor_others

\* A task with a cancellation requested is resumed with CancelledError, which
\* the loop's "except Exception" does not catch.
TaskCancelled(i) ==
    /\ i \in 1..Len(monitor.tasks)
    /\ monitor.tasks[i] = "cancelling"
    /\ monitor' = [monitor EXCEPT !.tasks[i] = "cancelled"]
    /\ UNCHANGED monitor_others

MonitorNext ==
    \/ StartMonitoring
    \/ StopMonitoringBegin
    \/ StopMonitoringReturn
    \/ \E i \in 1..MaxCalls : MonitoringLoop(i)
    \/ \E i \in 1..MaxCalls : TaskCancelled(i)

MonitorSpec == MonitorInit /\ [][MonitorNext]_vars

\* C24: start_monitoring sets is_running and creates one loop task, a second
\* start while running creates none, stop_monitoring clears is_running and
\* cancels the task; at most one loop task is alive at any time and none
\* after stop_monitoring has returned.
C24_MonitoringLifecycle ==
    monitor # Off =>
        /\ Cardinality(AliveTasks(monitor.tasks)) <= 1
        /\ monitor.is_running
               => AliveTasks(monitor.tasks) = {monitor.monitoring_task}
        /\ monitor.last.call = "start"
               => /\ monitor.is_running
                  /\ Len(monitor.tasks)
                         = monitor.last.tasks_before
                               + (IF monitor.last.was_running THEN 0 ELSE 1)
        /\ monitor.last.call = "stop"
               => /\ ~monitor.is_running
                  /\ Len(monitor.tasks) = monitor.last.tasks_before
                  /\ AliveTasks(monitor.tasks) \subseteq {monitor.monitoring_task}
                  /\ \A i \in AliveTasks(monitor.tasks) :
                         monitor.tasks[i] = "cancelling"
                  /\ monitor.caller = "idle" => AliveTasks(monitor.tasks) = {}

\* Started twice, stopped, and started again: the first task was cancelled,
\* the second is the only one and runs.
C24_Witness ==
    /\ monitor # Off
    /\ monitor.calls = 4
    /\ monitor.tasks = <<"cancelled", "running">>
    /\ monitor.is_running
    /\ monitor.monitoring_task = 2
    /\ monitor.last = [call |-> "start", was_running |-> FALSE, tasks_before |-> 1]

(***************************************************************************)
(* MetricsCollector.collect_metric                                         *)
(***************************************************************************)

\* max_metrics, scaled down from 10000.
MaxMetrics == 3

\* Calls of collect_metric followed.
MaxCollected == 7

MetricNames == {"system.cpu.usage", "system.memory.usage"}

\* The number of entries that self.metrics[-self.max_metrics//2:] keeps: the
\* minus sign applies before the floor division.
KeptAfterTrim == 0 - ((0 - MaxMetrics) \div 2)

LastOf(s, n) ==
    IF Len(s) <= n THEN s ELSE SubSeq(s, Len(s) - n + 1, Len(s))

\* A faulty variant: the oldest entries are the ones kept.
RetainOldest(metrics) ==
    IF Len(metrics) > MaxMetrics THEN SubSeq(metrics, 1, KeptAfterTrim) ELSE metrics

\* The list after the length test of collect_metric.
Retain(metrics) ==
    IF Len(metrics) > MaxMetrics THEN LastOf(metrics, KeptAfterTrim) ELSE metrics

\* Everything but the metrics collector.
collector_others == <<engine_vars, app, limits, caching, limiter,
                      alerting, monitor, memory, http>>

\* MetricsCollector.__init__.  collected is history: every metric ever
\* collected, in order.
CollectorInit ==
    /\ collector = [metrics |-> <<>>, collected |-> <<>>]
    /\ EngineOff
    /\ app = Off /\ limits = Off /\ caching = Off /\ limiter = Off
    /\ alerting = Off /\ monitor = Off /\ memory = Off /\ http = Off

\* collect_metric(name, value, unit): the value is the number of the call, as
\* in the retention test.
CollectMetric(name) ==
    /\ Len(collector.collected) < MaxCollected
    /\ LET metric == [name |-> name, value |-> Len(collector.collected),
                      unit |-> "count"]
       IN  collector' = [metrics |-> Retain(Append(collector.metrics, metric)),
                         collected |-> Append(collector.collected, metric)]
    /\ UNCHANGED collector_others

CollectorNext == \E name \in MetricNames : CollectMetric(name)

CollectorSpec == CollectorInit /\ [][CollectorNext]_vars

\* C25: the stored list never holds more than max_metrics entries, it is the
\* most recent part of what was collected, in insertion order, and the metric
\* collected last is in it.
C25_BoundedRetention ==
    collector # Off =>
        /\ Len(collector.metrics) <= MaxMetrics
        /\ collector.metrics
               = LastOf(collector.collected, Len(collector.metrics))
        /\ collector.collected # <<>>
               => /\ collector.metrics # <<>>
                  /\ collector.metrics[Len(collector.metrics)]
                         = collector.collected[Len(collector.collected)]

\* The list has just been cut: one metric more than max_metrics was collected
\* and the newer half is what is left.
C25_Witness ==
    /\ collector # Off
    /\ Len(collector.collected) = MaxMetrics + 1
    /\ Len(collector.metrics) = KeptAfterTrim
    /\ collector.metrics[1].value = MaxMetrics + 1 - KeptAfterTrim

RoundingSlack == DecFromInput(Num(1, -15))

\* current_amount - (total_contributions + the period interests so far).
RunningAmountError ==
    DecSub(current_amount, DecAdd(total_contributions, interest_accrued))

C27_FirstStartIsPrincipal ==
    Len(yearly_breakdown) >= 1 =>
        DecCmp(DecFromCents(yearly_breakdown[1].start_amount), principal) = 0

\* C27, amended: the breakdown is a chain: its entries carry year = 1, 2, ... in that
\* order (up to `years` when the call has returned), the first start_amount
\* is the principal rounded to cents, and every later start_amount equals the
\* end_amount of the entry before it.
C27_BreakdownChain ==
    /\ \A i \in 1..Len(yearly_breakdown) :
           /\ yearly_breakdown[i].year = i
           /\ i = 1 => yearly_breakdown[i].start_amount = Quantize2(principal)
           /\ i > 1 => yearly_breakdown[i].start_amount
                           = yearly_breakdown[i - 1].end_amount
    /\ pc = "done" =>
           /\ response.yearly_breakdown = yearly_breakdown
           /\ Len(yearly_breakdown) = request.years

\* A call over two years or more with payments has returned; its second year
\* starts above the principal, at the end of the first.
C27_Witness ==
    /\ pc = "done"
    /\ request.years >= 2
    /\ DecGt(monthly_payment, DecZero)
    /\ Len(response.yearly_breakdown) = request.years
    /\ response.yearly_breakdown[2].start_amount > Quantize2(principal)
    /\ response.yearly_breakdown[2].start_amount
           = response.yearly_breakdown[1].end_amount

(***************************************************************************)
(* The HTTP calculation handler (api/v1/endpoints/calculator.py)           *)
(***************************************************************************)

\* The endpoint module's own CalculatorRequest: the field constraints and the
\* frequency validator; a body it refuses is answered 422.
EndpointRequestAccepts(r) ==
    /\ InRange(r.principal, 0, TRUE, 10000000)
    /\ InRange(r.monthly_payment, 0, FALSE, 50000)
    /\ InRange(r.annual_rate, 0, TRUE, 20)
    /\ r.years > 0 /\ r.years <= 50
    /\ r.compound_frequency \in AllowedFrequencies

\* The handler's own test of its arguments, answered 400.
EndpointInvalidInput(r) ==
    \/ ~DecGt(DecFromInput(r.principal), DecZero)
    \/ ~DecGt(DecFromInput(r.annual_rate), DecZero)
    \/ r.years <= 0

\* The handler computes in binary floating point; its values are carried
\* here as 28-digit decimals, which agree with the floats far beyond the
\* cents that are returned.
\* float(request.annual_rate) / 100
EndpointRate(r) ==
    CHOOSE rate \in {DecDiv(x, DecFromInt(100)) : x \in {DecFromInput(r.annual_rate)}} :
        TRUE

\* principal * ((1 + rate) ** years), whatever the compound_frequency.
EndpointGrownPrincipal(r) ==
    CHOOSE grown \in
        {DecMul(p, power) :
            p \in {DecFromInput(r.principal)},
            power \in {DecPow(base, r.years) :
                          base \in {DecAdd(DecFromInt(1), rate) :
                                       rate \in {EndpointRate(r)}}}} : TRUE

\* monthly_payment * (((1 + monthly_rate) ** months - 1) / monthly_rate), or
\* monthly_payment * months at rate 0.
EndpointMonthlyFv(r) ==
    CHOOSE fv \in
        {IF DecGt(monthly_rate, DecZero)
         THEN CHOOSE v \in
                  {DecMul(payment, ratio) :
                      ratio \in {DecDiv(gain, monthly_rate) :
                          gain \in {DecSub(power, DecFromInt(1)) :
                              power \in {DecPow(base, r.years * 12) :
                                  base \in {DecAdd(DecFromInt(1), monthly_rate)}}}}} :
                  TRUE
         ELSE DecMul(payment, DecFromInt(r.years * 12)) :
            payment \in {DecFromInput(r.monthly_payment)},
            monthly_rate \in {DecDiv(rate, DecFromInt(12)) :
                                 rate \in {EndpointRate(r)}}} : TRUE

EndpointFinalAmount(r) ==
    IF DecGt(DecFromInput(r.monthly_payment), DecZero)
    THEN CHOOSE sum \in {DecAdd(grown, fv) : grown \in {EndpointGrownPrincipal(r)},
                                             fv \in {EndpointMonthlyFv(r)}} : TRUE
    ELSE EndpointGrownPrincipal(r)

\* principal + (monthly_payment * 12 * years)
EndpointTotalContributions(r) ==
    CHOOSE sum \in
        {DecAdd(p, paid) :
            p \in {DecFromInput(r.principal)},
            paid \in {DecMul(yearly, DecFromInt(r.years)) :
                         yearly \in {DecMul(payment, DecFromInt(12)) :
                                        payment \in {DecFromInput(r.monthly_payment)}}}} :
        TRUE

\* The dictionary the handler returns, amounts in cents.
EndpointResponse(r, final_amount, contributions, t) ==
    [final_amount |-> Quantize2(final_amount),
     total_contributions |-> Quantize2(contributions),
     total_interest |-> Quantize2(DecSub(final_amount, contributions)),
     annual_return |-> Quantize2(DecFromInput(r.annual_rate)),
     yearly_breakdown |-> <<>>,
     calculation_time |-> t]

\* The engine's variables as the engine's Init sets them.
HttpInit ==
    /\ request \in Requests
    /\ validated_by = "none"
    /\ pc = "idle"
    /\ principal = DecZero /\ monthly_payment = DecZero /\ annual_rate = DecZero
    /\ periods_per_year = 0 /\ rate_per_period = DecZero
    /\ current_amount = DecZero /\ total_contributions = DecZero
    /\ yearly_breakdown = <<>>
    /\ year = 0 /\ period = 0
    /\ year_start_amount = DecZero /\ year_contributions = DecZero
    /\ year_interest = DecZero
    /\ interest_accrued = DecZero
    /\ response = NoResponse
    /\ previous = NoCall
    /\ now = 0
    /\ http = [pc |-> "idle"]
    /\ app = Off /\ limits = Off /\ caching = Off /\ limiter = Off
    /\ alerting = Off /\ monitor = Off /\ collector = Off /\ memory = Off

\* POST /calculate with the request the engine has answered: 422 from the
\* request model, 400 from the handler's own test, else 200 and the result
\* of the handler's own formula.
CalculateCompoundInterestEndpoint ==
    /\ http # Off
    /\ pc = "done"
    /\ http.pc = "idle"
    /\ IF ~EndpointRequestAccepts(request)
       THEN http' = [pc |-> "done", request |-> request, status_code |-> 422]
       ELSE IF EndpointInvalidInput(request)
       THEN http' = [pc |-> "done", request |-> request, status_code |-> 400]
       ELSE \E final_amount \in {EndpointFinalAmount(request)},
                  contributions \in {EndpointTotalContributions(request)} :
                http' = [pc |-> "done", request |-> request, status_code |-> 200,
                         response |-> EndpointResponse(request, final_amount,
                                                       contributions, now)]
    /\ UNCHANGED <<engine_vars, app, limits, caching, limiter,
                   alerting, monitor, collector, memory>>

\* One call of the engine and one of the handler, with the same request.
HttpNext ==
    \/ CreateRequest
    \/ ValidateCalculationInput
    \/ StartCalculation
    \/ BeginYear
    \/ PeriodStep
    \/ EndYear
    \/ Finish
    \/ CalculateCompoundInterestEndpoint

HttpSpec == HttpInit /\ [][HttpNext]_vars

\* The engine and the handler have both answered the same valid request.
BothAnswered ==
    /\ http # Off
    /\ pc = "done"
    /\ http.pc = "done"
    /\ http.request = request
    /\ http.status_code = 200

\* C28: the handler returns what the engine computes: for every valid
\* request and each compound_frequency its final_amount, total_contributions
\* and total_interest equal those of the engine for the same input, and its
\* yearly_breakdown has `years` entries.
C28_HandlerReturnsEngineResult ==
    BothAnswered =>
        /\ http.response.final_amount = response.final_amount
        /\ http.response.total_contributions = response.total_contributions
        /\ http.response.total_interest = response.total_interest
        /\ Len(http.response.yearly_breakdown) = request.years

(***************************************************************************)
(* MemoryCache used through set, get, delete and clear                     *)
(***************************************************************************)

\* max_size of the cache, scaled down from 1000.
MemoryMaxSize == 2

\* ttl of every set, in ticks of the clock.
MemoryTTL == 1

\* The last reading of the clock.
MaxMemoryClock == 2

\* Calls of set, get, delete and clear followed.
MaxMemoryCalls == 5

MemoryKeys == {"a", "b", "c"}

MemoryValues == {"v1", "v2"}

\* The keys of a sequence.
KeysOf(s) == {s[i] : i \in 1..Len(s)}

\* A faulty variant: the cleanup waits until the cache is over its size.
CleanupWhenOver(entries, lru, max_size) ==
    IF Cardinality(DOMAIN entries) > max_size /\ Len(lru) > 0
    THEN [entries |-> DropKey(entries, lru[1]), lru |-> Tail(lru)]
    ELSE [entries |-> entries, lru |-> lru]

\* _cleanup_if_needed: with max_size entries or more, the entry accessed
\* longest ago is deleted.  lru lists the keys by _access_times, oldest first.
CleanupIfNeeded(entries, lru, max_size) ==
    IF Cardinality(DOMAIN entries) >= max_size /\ Len(lru) > 0
    THEN [entries |-> DropKey(entries, lru[1]), lru |-> Tail(lru)]
    ELSE [entries |-> entries, lru |-> lru]

\* MemoryCache.set(key, value, ttl) at the time t.
MemoryCacheSetWithin(entries, lru, max_size, key, value, ttl, t) ==
    LET cleaned == CleanupIfNeeded(entries, lru, max_size)
    IN  [entries |-> [x \in DOMAIN cleaned.entries \cup {key} |->
                         IF x = key
                         THEN [value |-> value, expires_at |-> t + ttl]
                         ELSE cleaned.entries[x]],
         lru |-> Append(WithoutKey(cleaned.lru, key), key)]

\* Everything but the cache object.
memory_others == <<engine_vars, app, limits, caching, limiter,
                   alerting, monitor, collector, http>>

\* MemoryCache(max_size).  last is history: the latest call, its key, and the
\* keys held before it.
MemoryInit ==
    /\ memory = [entries |-> <<>>, lru |-> <<>>, t |-> 0, calls |-> 0,
                 last |-> [op |-> "none", key |-> "none", keys_before |-> {},
                           found |-> FALSE]]
    /\ EngineOff
    /\ app = Off /\ limits = Off /\ caching = Off /\ limiter = Off
    /\ alerting = Off /\ monitor = Off /\ collector = Off /\ http = Off

MemorySet(key, value) ==
    /\ memory.calls < MaxMemoryCalls
    /\ LET after == MemoryCacheSetWithin(memory.entries, memory.lru, MemoryMaxSize,
                                         key, value, MemoryTTL, memory.t)
       IN  memory' = [memory EXCEPT
                         !.entries = after.entries,
                         !.lru = after.lru,
                         !.calls = @ + 1,
                         !.last = [op |-> "set", key |-> key,
                                   keys_before |-> DOMAIN memory.entries,
                                   found |-> FALSE]]
    /\ UNCHANGED memory_others

MemoryGet(key) ==
    /\ memory.calls < MaxMemoryCalls
    /\ LET got == MemoryCacheGet(memory.entries, memory.lru, key, memory.t)
       IN  memory' = [memory EXCEPT
                         !.entries = got.entries,
                         !.lru = got.lru,
                         !.calls = @ + 1,
                         !.last = [op |-> "get", key |-> key,
                                   keys_before |-> DOMAIN memory.entries,
                                   found |-> got.found]]
    /\ UNCHANGED memory_others

MemoryDelete(key) ==
    /\ memory.calls < MaxMemoryCalls
    /\ memory' = [memory EXCEPT
                     !.entries = DropKey(@, key),
                     !.lru = WithoutKey(@, key),
                     !.calls = @ + 1,
                     !.last = [op |-> "delete", key |-> key,
                               keys_before |-> DOMAIN memory.entries,
                               found |-> FALSE]]
    /\ UNCHANGED memory_others

MemoryClear ==
    /\ memory.calls < MaxMemoryCalls
    /\ memory' = [memory EXCEPT
                     !.entries = <<>>,
                     !.lru = <<>>,
                     !.calls = @ + 1,
                     !.last = [op |-> "clear", key |-> "none",
                               keys_before |-> DOMAIN memory.entries,
                               found |-> FALSE]]
    /\ UNCHANGED memory_others

\* time.time() advances between two calls.
MemoryTick ==
    /\ memory.t < MaxMemoryClock
    /\ memory' = [memory EXCEPT !.t = @ + 1]
    /\ UNCHANGED memory_others

MemoryNext ==
    \/ \E key \in MemoryKeys, value \in MemoryValues : MemorySet(key, value)
    \/ \E key \in MemoryKeys : MemoryGet(key)
    \/ \E key \in MemoryKeys : MemoryDelete(key)
    \/ MemoryClear
    \/ MemoryTick

MemorySpec == MemoryInit /\ [][MemoryNext]_vars

\* C29: after any sequence of set, get, delete and clear the cache holds at
\* most max_size entries and _cache and _access_times have the same keys.
C29_CapacityAndConsistency ==
    memory # Off =>
        /\ Cardinality(DOMAIN memory.entries) <= MemoryMaxSize
        /\ KeysOf(memory.lru) = DOMAIN memory.entries
        /\ Len(memory.lru) = Cardinality(DOMAIN memory.entries)

\* A set into the full cache has put a new key in the place of the oldest.
C29_Witness ==
    /\ memory # Off
    /\ memory.last.op = "set"
    /\ Cardinality(memory.last.keys_before) = MemoryMaxSize
    /\ memory.last.key \notin memory.last.keys_before
    /\ Cardinality(DOMAIN memory.entries) = MemoryMaxSize
    /\ memory.last.key \in DOMAIN memory.entries

\* C30: a set on a key that is already present removes no other key from the
\* cache, whatever the number of entries.
C30_OverwriteKeepsOtherKeys ==
    memory # Off =>
        (memory.last.op = "set" /\ memory.last.key \in memory.last.keys_before
             => memory.last.keys_before \subseteq DOMAIN memory.entries)

=============================================================================
